---- MODULE Spec2Model ----
(***************************************************************************)
(* Backtesting engine of the trading bot (src/backtesting/engine.py):      *)
(* the single-range simulator _simulate_range, the metrics reducer, the    *)
(* single-pass backtest run_backtest and the walk-forward orchestrator     *)
(* run_walk_forward_backtest.                                              *)
(*                                                                         *)
(* Specifications: SpecRange (one call of the simulator), SpecReplay (two  *)
(* calls in a row), SpecMetrics (the reducer on given trades),             *)
(* SpecBacktest, SpecWalkForward, SpecParallel (the splits of a            *)
(* walk-forward run as concurrent tasks on one strategy object), SpecPrice *)
(* (the execution cost model near its price floor), SpecPreflight (a       *)
(* walk-forward result handed to _backtest_gate), SpecBot (run_bot of      *)
(* src/main.py with the gate that consumes the engine's results),          *)
(* SpecRisk (the risk manager of src/risk/manager.py) and SpecShared (the  *)
(* bot and the dashboard of src/dashboard/app.py on one                    *)
(* runtime_state.json).                                                    *)
(*                                                                         *)
(* Python floats are modelled as exact rationals <<n, d>> with d > 0 in    *)
(* lowest terms.  Prices, fees and percentages are drawn from small sets   *)
(* with small denominators so that every intermediate value fits TLC's     *)
(* integers.                                                               *)
(***************************************************************************)
EXTENDS Integers, Sequences, FiniteSets, TLC

(***************************************************************************)
(* Bounds of the model.                                                    *)
(***************************************************************************)
MaxBars == 5
MaxTrades == 3

(***************************************************************************)
(* Exact rational arithmetic standing for float arithmetic.                *)
(***************************************************************************)
Abs(x) == IF x < 0 THEN -x ELSE x

RECURSIVE GCD(_, _)
GCD(a, b) == IF b = 0 THEN a ELSE GCD(b, a % b)

Norm(n, d) == LET g == GCD(Abs(n), d) IN <<n \div g, d \div g>>

R(n, d) == Norm(n, d)
Zero == <<0, 1>>
One == <<1, 1>>
Hundred == <<100, 1>>

RAdd(a, b) ==
    LET g == GCD(a[2], b[2])
    IN  Norm(a[1] * (b[2] \div g) + b[1] * (a[2] \div g), (a[2] \div g) * b[2])

RNeg(a) == <<-a[1], a[2]>>
RSub(a, b) == RAdd(a, RNeg(b))

RMul(a, b) ==
    LET g1 == GCD(Abs(a[1]), b[2])
        g2 == GCD(Abs(b[1]), a[2])
    IN  <<(a[1] \div g1) * (b[1] \div g2), (a[2] \div g2) * (b[2] \div g1)>>

\* a / b for b > 0 (every division of the engine is guarded to a positive
\* denominator)
RDiv(a, b) == RMul(a, <<b[2], b[1]>>)

RLe(a, b) ==
    LET g == GCD(a[2], b[2])
    IN  a[1] * (b[2] \div g) <= b[1] * (a[2] \div g)
RLt(a, b) == ~RLe(b, a)
RGe(a, b) == RLe(b, a)
RGt(a, b) == ~RLe(a, b)
RMax(a, b) == IF RLe(a, b) THEN b ELSE a
RMin(a, b) == IF RLe(a, b) THEN a ELSE b
RPos(a) == a[1] > 0

\* The float literal 1e-12 cannot be written with TLC's integers.  Every
\* rational of the model has a denominator below 2^31 < 10^12, so a value
\* is <= 1e-12 exactly when it is <= 0.
LeEps12(a) == a[1] <= 0

\* The float literal 1e-6 (floor of the sell-side factor)
Eps6 == <<1, 1000000>>

\* None for an optional float (profit_factor)
Null == <<0, 0>>
IsNull(x) == x[2] = 0

\* None for an optional bar index (entry_i)
NoBar == -1

(***************************************************************************)
(* Inputs.                                                                 *)
(***************************************************************************)
\* closes of the bars (positive reals in the data model)
Closes == {2, 4}

\* a signal of the signal source: None, or a dict with type LONG or SHORT
Signals == {"none", "LONG", "SHORT"}

\* cost side of the settings: commission, execution cost, risk fraction,
\* partial fill fraction, and the starting capital
CostProfiles ==
    { [fee |-> Zero, cost_pct |-> Zero, risk_pct |-> R(1, 2),
       partial_fill |-> One, initial_capital |-> R(64, 1)],
      [fee |-> R(1, 4), cost_pct |-> R(1, 4), risk_pct |-> R(2, 1),
       partial_fill |-> One, initial_capital |-> R(64, 1)],
      [fee |-> R(1, 4), cost_pct |-> Zero, risk_pct |-> R(1, 2),
       partial_fill |-> R(1, 2), initial_capital |-> R(64, 1)],
      [fee |-> Zero, cost_pct |-> R(1, 4), risk_pct |-> R(2, 1),
       partial_fill |-> R(1, 2), initial_capital |-> R(64, 1)],
      [fee |-> R(1, 4), cost_pct |-> R(1, 4), risk_pct |-> R(1, 2),
       partial_fill |-> One, initial_capital |-> Zero] }

\* exit side of the settings: stop-loss, take-profit and trailing-stop
\* percentages (0 disables the trigger) and the holding cap
ExitProfiles ==
    { [stop_loss_pct |-> R(1, 4), take_profit_pct |-> R(1, 2),
       trailing_stop_pct |-> R(1, 4), max_hold_bars |-> 2],
      [stop_loss_pct |-> R(1, 4), take_profit_pct |-> R(1, 2),
       trailing_stop_pct |-> Zero, max_hold_bars |-> 96],
      [stop_loss_pct |-> Zero, take_profit_pct |-> Zero,
       trailing_stop_pct |-> R(1, 4), max_hold_bars |-> 96],
      [stop_loss_pct |-> Zero, take_profit_pct |-> Zero,
       trailing_stop_pct |-> Zero, max_hold_bars |-> 1] }

\* settings.BACKTEST_LATENCY_BARS
LatencyValues == {0, 1, 2}

Merge(f, g) == [k \in (DOMAIN f) \cup (DOMAIN g) |->
                  IF k \in DOMAIN f THEN f[k] ELSE g[k]]

Configs ==
    { Merge(Merge(c, e), [latency_bars |-> l]) :
        c \in CostProfiles, e \in ExitProfiles, l \in LatencyValues }

\* bar series: sequences of closes of length 0 .. MaxBars
RECURSIVE SeqsOfLen(_, _)
SeqsOfLen(S, n) ==
    IF n = 0 THEN {<<>>}
    ELSE { Append(s, x) : s \in SeqsOfLen(S, n - 1), x \in S }

BarSeries == UNION { SeqsOfLen(Closes, n) : n \in 0..MaxBars }

(***************************************************************************)
(* State.                                                                  *)
(***************************************************************************)
VARIABLES
    cfg,            \* the settings read by the engine
    df,             \* the bar series (closes), bar k is df[k + 1]
    caller,         \* who runs: "range", "backtest", "walk_forward", "bot", ...
    pc,             \* position in the code
    start_index,    \* arguments of _simulate_range
    end_index,
    i,              \* bar cursor
    end,            \* clamped end of the range
    cash,
    qty,
    entry_price,
    entry_i,
    high_watermark,
    trades,
    equity_curve,   \* pairs [bar, equity]; bar stands for the timestamp
    signal,         \* signal received by the last iteration
    exit_reason,    \* exit reason chosen by the last iteration
    sim,            \* the value returned by _simulate_range
    idx,            \* walk-forward: index of the current split
    split_rows,
    all_trades,
    combined_equity_curve,
    thresholds,     \* walk-forward pass thresholds read while scoring
    result,         \* the value returned by run_backtest / run_walk_forward_backtest
    run,            \* repeated calls: number of the current call (1 or 2)
    log,            \* repeated calls: the iterations of the current call
    first,          \* repeated calls: bars, iterations and result of call 1
    strategy,       \* the TrendDeviationStrategy object handed to the simulator
    source,         \* the signal the strategy's rules give for each slice length
    tasks,          \* concurrent splits: the locals of each split's simulation
    cur,            \* concurrent splits: the split that is running
    asked,          \* concurrent splits: the running split is inside the source
    bot             \* the live side: run_bot's preflight table and runtime
                    \* state (SpecBot), the risk manager's state and clock
                    \* (SpecRisk), the state file with the bot and the
                    \* dashboard on it (SpecShared)

simvars == <<start_index, end_index, i, end, cash, qty, entry_price, entry_i,
             high_watermark, trades, equity_curve, signal, exit_reason, sim>>

wfvars == <<idx, split_rows, all_trades, combined_equity_curve, thresholds>>

replayvars == <<run, log, first>>

parvars == <<strategy, source, tasks, cur, asked>>

\* the variables that a single sequential call leaves alone
idlevars == <<replayvars, parvars, bot>>

vars == <<cfg, df, caller, pc, simvars, wfvars, result, replayvars, parvars,
          bot>>

\* the close read one bar ahead of the bar asked for
Close_ahead(k) == R(df[IF k + 2 <= Len(df) THEN k + 2 ELSE Len(df)], 1)

\* df["Close"].iloc[k]
Close(k) == R(df[k + 1], 1)

Max(a, b) == IF a >= b THEN a ELSE b
Min(a, b) == IF a <= b THEN a ELSE b

(***************************************************************************)
(* Execution cost model and metrics reducer.                               *)
(***************************************************************************)
\* _execution_price that fills at the raw close
_execution_price_no_cost(raw_price, side) == raw_price

\* _execution_price with the sell side charged like the buy side
_execution_price_buy_only(raw_price, side) ==
    RMul(raw_price, RAdd(One, RMax(cfg.cost_pct, Zero)))

\* _execution_price: raw close -> fill price for side "buy" or "sell".
\* raw = max(raw_price, 1e-12) is raw_price for the positive closes of the
\* model; cfg.cost_pct is (spread_bps / 2 + slippage_bps) / 10000.
_execution_price_unfloored(raw_price, side) ==
    IF side = "buy"
    THEN RMul(raw_price, RAdd(One, RMax(cfg.cost_pct, Zero)))
    ELSE RMul(raw_price, RSub(One, RMax(cfg.cost_pct, Zero)))

_execution_price(raw_price, side) ==
    LET raw == raw_price
        cost_pct == RMax(cfg.cost_pct, Zero)
    IN  IF side = "buy"
        THEN RMul(raw, RAdd(One, cost_pct))
        ELSE RMul(raw, RMax(RSub(One, cost_pct), Eps6))

RECURSIVE SumIf(_, _)
\* np.sum(pnls[pnls > 0]) for sign = 1, np.sum(pnls[pnls < 0]) for
\* sign = -1, np.sum(pnls) for sign = 0
SumIf(pnls, sign) ==
    IF pnls = <<>> THEN Zero
    ELSE LET p == Head(pnls)
             rest == SumIf(Tail(pnls), sign)
             keep == \/ sign = 0
                     \/ sign = 1 /\ p[1] > 0
                     \/ sign = -1 /\ p[1] < 0
         IN  IF keep THEN RAdd(p, rest) ELSE rest

GrossProfit(pnls) == SumIf(pnls, 1)
GrossLoss(pnls) == LET s == SumIf(pnls, -1) IN <<Abs(s[1]), s[2]>>

\* _profit_factor returning 0.0 instead of None for a list without a loss
_profit_factor_zero(pnls) ==
    LET gross_profit == GrossProfit(pnls)
        gross_loss == GrossLoss(pnls)
    IN  IF RLe(gross_loss, Zero) THEN Zero
        ELSE RDiv(gross_profit, gross_loss)

\* _profit_factor: None when the gross loss is zero
_profit_factor(pnls) ==
    LET gross_profit == GrossProfit(pnls)
        gross_loss == GrossLoss(pnls)
    IN  IF RLe(gross_loss, Zero) THEN Null
        ELSE RDiv(gross_profit, gross_loss)

Pnls(ts) == [k \in 1..Len(ts) |-> ts[k].pnl]
Wins(pnls) == Cardinality({k \in 1..Len(pnls) : pnls[k][1] > 0})
\* losses counted with pnl < 0, a flat trade being neither a win nor a loss
Losses_strict(pnls) == Cardinality({k \in 1..Len(pnls) : pnls[k][1] < 0})

\* losses = int(np.sum(pnls <= 0))
Losses(pnls) == Cardinality({k \in 1..Len(pnls) : pnls[k][1] <= 0})

RECURSIVE Drawdown(_, _, _)
\* _max_drawdown: minimum over the curve of (value - peak) / max(peak, 1e-12),
\* as a fraction; worst is the minimum so far
Drawdown(curve, peak, worst) ==
    IF curve = <<>> THEN worst
    ELSE LET v == Head(curve)
             p == RMax(peak, v)
             dd == IF LeEps12(p) THEN Zero ELSE RDiv(RSub(v, p), p)
         IN  Drawdown(Tail(curve), p, RMin(worst, dd))

_max_drawdown(curve) ==
    IF curve = <<>> THEN Zero
    ELSE RMul(Drawdown(curve, Head(curve), Zero), Hundred)

Equities(curve) == [k \in 1..Len(curve) |-> curve[k].equity]

\* returns = np.diff(curve) / np.maximum(curve[:-1], 1e-12), empty for a
\* curve of fewer than two points.  A step from an equity <= 1e-12 is
\* divided by 1e-12: 0 for a step of 0, and otherwise a quotient beyond the
\* integers of the model, kept as the step marked "over_1e-12".
Returns(curve) ==
    IF Len(curve) > 1
    THEN [k \in 1..(Len(curve) - 1) |->
            LET step == RSub(curve[k + 1], curve[k])
            IN  IF LeEps12(curve[k])
                THEN IF step = Zero THEN Zero
                     ELSE <<step[1], step[2], "over_1e-12">>
                ELSE RDiv(step, curve[k])]
    ELSE <<>>

\* the float np.mean(returns) / np.std(returns) * sqrt(bars_per_year) of a
\* return series with a positive deviation.  Its value is irrational in
\* general; it is kept as the term over the returns it is computed from,
\* which is never equal to a rational <<n, d>>.
SharpeTerm(returns) == <<"mean_over_std_annualised", returns, Len(returns)>>

\* the Sharpe ratio computed without the guard on the number and the
\* deviation of the returns
Sharpe_unguarded(curve) == SharpeTerm(Returns(curve))

\* sharpe = 0.0 unless returns.size > 1 and np.std(returns) > 0; the
\* deviation is 0 exactly when all returns are equal
Sharpe(curve) ==
    LET returns == Returns(curve)
    IN  IF Len(returns) > 1 /\ (\E k \in 1..Len(returns) : returns[k] # returns[1])
        THEN SharpeTerm(returns)
        ELSE Zero

\* _compute_metrics
_compute_metrics(initial_capital, final_equity, ts, curve) ==
    LET pnls == Pnls(ts)
        wins == Wins(pnls)
        losses == Losses(pnls)
        win_rate == IF Len(ts) > 0
                    THEN RMul(R(wins, Len(ts)), Hundred) ELSE Zero
    IN  [ initial_capital |-> initial_capital,
          final_equity |-> final_equity,
          net_profit |-> RSub(final_equity, initial_capital),
          total_return_pct |->
              IF RPos(initial_capital)
              THEN RMul(RSub(RDiv(final_equity, initial_capital), One), Hundred)
              ELSE Zero,
          max_drawdown_pct |-> _max_drawdown(curve),
          sharpe |-> Sharpe(curve),
          trades |-> Len(ts),
          wins |-> wins,
          losses |-> losses,
          win_rate_pct |-> win_rate,
          profit_factor |-> _profit_factor(pnls) ]

(***************************************************************************)
(* _simulate_range.                                                        *)
(***************************************************************************)
\* the exit chain with the holding cap tested before the price triggers
ExitReason_hold_first(close_price, hwm, held_bars, sig) ==
    LET stop_price == RMul(entry_price, RSub(One, cfg.stop_loss_pct))
        tp_price == RMul(entry_price, RAdd(One, cfg.take_profit_pct))
        trail_price == RMul(hwm, RSub(One, cfg.trailing_stop_pct))
    IN  IF held_bars >= cfg.max_hold_bars
        THEN "max_hold"
        ELSE IF RPos(cfg.stop_loss_pct) /\ RLe(close_price, stop_price)
        THEN "stop_loss"
        ELSE IF RPos(cfg.take_profit_pct) /\ RGe(close_price, tp_price)
        THEN "take_profit"
        ELSE IF RPos(cfg.trailing_stop_pct) /\ RGt(hwm, entry_price)
                /\ RLe(close_price, trail_price)
        THEN "trailing_stop"
        ELSE IF sig = "SHORT"
        THEN "signal_short"
        ELSE "none"

\* the exit chain with the holding cap reached one bar late
ExitReason_hold_late(close_price, hwm, held_bars, sig) ==
    LET stop_price == RMul(entry_price, RSub(One, cfg.stop_loss_pct))
        tp_price == RMul(entry_price, RAdd(One, cfg.take_profit_pct))
        trail_price == RMul(hwm, RSub(One, cfg.trailing_stop_pct))
    IN  IF RPos(cfg.stop_loss_pct) /\ RLe(close_price, stop_price)
        THEN "stop_loss"
        ELSE IF RPos(cfg.take_profit_pct) /\ RGe(close_price, tp_price)
        THEN "take_profit"
        ELSE IF RPos(cfg.trailing_stop_pct) /\ RGt(hwm, entry_price)
                /\ RLe(close_price, trail_price)
        THEN "trailing_stop"
        ELSE IF held_bars > cfg.max_hold_bars
        THEN "max_hold"
        ELSE IF sig = "SHORT"
        THEN "signal_short"
        ELSE "none"

\* the if/elif chain that picks the exit reason of a bar with an open
\* position; "none" stands for None
ExitReason(close_price, hwm, held_bars, sig) ==
    LET stop_price == RMul(entry_price, RSub(One, cfg.stop_loss_pct))
        tp_price == RMul(entry_price, RAdd(One, cfg.take_profit_pct))
        trail_price == RMul(hwm, RSub(One, cfg.trailing_stop_pct))
    IN  IF RPos(cfg.stop_loss_pct) /\ RLe(close_price, stop_price)
        THEN "stop_loss"
        ELSE IF RPos(cfg.take_profit_pct) /\ RGe(close_price, tp_price)
        THEN "take_profit"
        ELSE IF RPos(cfg.trailing_stop_pct) /\ RGt(hwm, entry_price)
                /\ RLe(close_price, trail_price)
        THEN "trailing_stop"
        ELSE IF held_bars >= cfg.max_hold_bars
        THEN "max_hold"
        ELSE IF sig = "SHORT"
        THEN "signal_short"
        ELSE "none"

\* the allocation without the cap at the available cash
Allocation_uncapped ==
    RMul(RMul(cash, cfg.risk_pct), cfg.partial_fill)

\* min(cash, cash * risk_pct) * partial_fill
Allocation ==
    RMul(RMin(cash, RMul(cash, cfg.risk_pct)), cfg.partial_fill)

\* the BacktestTrade appended by an exit fill; bar indexes stand for the
\* timestamps
Trade_gross(ei, xi, eprice, xprice, q, fee_paid, reason) ==
    [ entry_i |-> ei,
      exit_i |-> xi,
      entry_price |-> eprice,
      exit_price |-> xprice,
      qty |-> q,
      pnl |-> RMul(RSub(xprice, eprice), q),
      return_pct |-> IF RPos(eprice)
                     THEN RMul(RDiv(RSub(xprice, eprice), eprice), Hundred)
                     ELSE Zero,
      exit_reason |-> reason ]

Trade_swapped(ei, xi, eprice, xprice, q, fee_paid, reason) ==
    [ entry_i |-> xi,
      exit_i |-> ei,
      entry_price |-> eprice,
      exit_price |-> xprice,
      qty |-> q,
      pnl |-> RSub(RMul(RSub(xprice, eprice), q), fee_paid),
      return_pct |-> IF RPos(eprice)
                     THEN RMul(RDiv(RSub(xprice, eprice), eprice), Hundred)
                     ELSE Zero,
      exit_reason |-> reason ]

Trade(ei, xi, eprice, xprice, q, fee_paid, reason) ==
    [ entry_i |-> ei,
      exit_i |-> xi,
      entry_price |-> eprice,
      exit_price |-> xprice,
      qty |-> q,
      pnl |-> RSub(RMul(RSub(xprice, eprice), q), fee_paid),
      return_pct |-> IF RPos(eprice)
                     THEN RMul(RDiv(RSub(xprice, eprice), eprice), Hundred)
                     ELSE Zero,
      exit_reason |-> reason ]

\* the position reset taken only for a negative remainder
IsFlat_strict(left) == left[1] < 0

\* qty <= 1e-12: the remaining quantity counts as a closed position
IsFlat(left) == LeEps12(left)

\* a fill on the signal bar itself
FillIndex_immediate(bar) == bar

\* fill_i = min(i + latency_bars, end - 1)
FillIndex(bar) == Min(bar + cfg.latency_bars, end - 1)

\* an exit that always closes the whole position
QtyToClose_all(q) == q

\* qty_to_close = qty * partial_fill, or qty if that is <= 0
QtyToClose(q) ==
    LET part == RMul(q, cfg.partial_fill)
    IN  IF RLe(part, Zero) THEN q ELSE part

\* an entry taken on every LONG signal, also while a position is open
EntryAllowed_any(q, sig) == sig = "LONG"

\* if qty <= 0 and signal and signal.get("type") == "LONG"
EntryAllowed(q, sig) == ~RPos(q) /\ sig = "LONG"

\* the starting cash carried over from the previous simulation
InitialCash_carried ==
    IF sim.metrics = <<>> THEN cfg.initial_capital ELSE sim.metrics.final_equity

\* cash = float(initial_capital); every caller passes settings.INITIAL_CAPITAL
InitialCash == cfg.initial_capital

\* locals and clamping of the range, and the empty-range early return
SimBegin ==
    /\ pc = "sim_begin"
    /\ cash' = InitialCash
    /\ qty' = Zero
    /\ entry_price' = Zero
    /\ entry_i' = NoBar
    /\ high_watermark' = Zero
    /\ trades' = <<>>
    /\ equity_curve' = <<>>
    /\ signal' = "none"
    /\ exit_reason' = "none"
    /\ i' = Max(start_index, 1)
    /\ end' = Min(end_index, Len(df))
    /\ IF i' >= end'
       THEN /\ sim' = [ trades |-> <<>>, equity_curve |-> <<>>,
                        metrics |-> _compute_metrics(cfg.initial_capital,
                                        cfg.initial_capital, <<>>, <<>>) ]
            /\ pc' = "sim_done"
       ELSE /\ sim' = sim
            /\ pc' = "loop"
    /\ UNCHANGED <<cfg, df, caller, start_index, end_index, wfvars, result>>

\* one iteration of the bar loop; the signal is the answer of
\* strategy.generate_latest_signal(df.iloc[: i + 1])
SimStep ==
    /\ pc = "loop"
    /\ i < end
    /\ \E sig \in Signals :
        LET close_price == Close(i)
            hwm == IF RPos(qty) THEN RMax(high_watermark, close_price)
                   ELSE high_watermark
            held_bars == IF entry_i # NoBar THEN i - entry_i ELSE 0
            reason == IF RPos(qty)
                      THEN ExitReason(close_price, hwm, held_bars, sig)
                      ELSE "none"
            fill_i == FillIndex(i)
            fill_raw == Close(fill_i)
        IN  /\ signal' = sig
            /\ exit_reason' = reason
            /\ IF EntryAllowed(qty, sig)
               THEN LET fill_price == _execution_price(fill_raw, "buy")
                        allocation == Allocation
                        entry_fee == RMul(allocation, cfg.fee)
                        net_allocation == RMax(RSub(allocation, entry_fee), Zero)
                    IN  IF RPos(allocation) /\ RPos(fill_price)
                        THEN /\ qty' = RDiv(net_allocation, fill_price)
                             /\ cash' = RSub(cash, allocation)
                             /\ entry_price' = fill_price
                             /\ entry_i' = fill_i
                             /\ high_watermark' = fill_raw
                             /\ i' = fill_i + 1
                             /\ trades' = trades
                        ELSE /\ high_watermark' = hwm
                             /\ i' = i + 1
                             /\ UNCHANGED <<qty, cash, entry_price, entry_i, trades>>
               ELSE IF RPos(qty) /\ reason # "none"
               THEN LET fill_price == _execution_price(fill_raw, "sell")
                        qty_to_close == QtyToClose(qty)
                        gross == RMul(qty_to_close, fill_price)
                        exit_fee == RMul(gross, cfg.fee)
                        net == RSub(gross, exit_fee)
                        left == RSub(qty, qty_to_close)
                    IN  /\ cash' = RAdd(cash, net)
                        /\ trades' = Append(trades,
                               Trade(IF entry_i # NoBar THEN entry_i ELSE i,
                                     fill_i, entry_price, fill_price,
                                     qty_to_close, exit_fee, reason))
                        /\ IF IsFlat(left)
                           THEN /\ qty' = Zero
                                /\ entry_price' = Zero
                                /\ entry_i' = NoBar
                                /\ high_watermark' = Zero
                           ELSE /\ qty' = left
                                /\ high_watermark' = hwm
                                /\ UNCHANGED <<entry_price, entry_i>>
                        /\ i' = fill_i + 1
               ELSE /\ high_watermark' = hwm
                    /\ i' = i + 1
                    /\ UNCHANGED <<qty, cash, entry_price, entry_i, trades>>
            /\ equity_curve' = Append(equity_curve,
                   [ bar |-> i,
                     equity |-> RAdd(cash', RMul(qty', close_price)) ])
    /\ UNCHANGED <<cfg, df, caller, pc, start_index, end_index, end, sim,
                   wfvars, result>>

\* after the loop: the end-of-range close, the metrics and the return value
SimFinish ==
    /\ pc = "loop"
    /\ i >= end
    /\ LET final_i == end - 1
           final_price == _execution_price(Close(final_i), "sell")
           gross == RMul(qty, final_price)
           exit_fee == RMul(gross, cfg.fee)
           net == RSub(gross, exit_fee)
           open == RPos(qty)
           cash1 == IF open THEN RAdd(cash, net) ELSE cash
           trades1 == IF open
                      THEN Append(trades,
                               Trade(IF entry_i # NoBar THEN entry_i ELSE final_i,
                                     final_i, entry_price, final_price, qty,
                                     exit_fee, "end_of_test"))
                      ELSE trades
           curve1 == IF open /\ equity_curve # <<>>
                     THEN [equity_curve EXCEPT ![Len(equity_curve)].equity = cash1]
                     ELSE equity_curve
           final_equity == IF curve1 = <<>> THEN cash1
                           ELSE curve1[Len(curve1)].equity
       IN  /\ cash' = cash1
           /\ qty' = Zero
           /\ trades' = trades1
           /\ equity_curve' = curve1
           /\ sim' = [ trades |-> trades1, equity_curve |-> curve1,
                       metrics |-> _compute_metrics(cfg.initial_capital,
                                       final_equity, trades1, Equities(curve1)) ]
    /\ pc' = "sim_done"
    /\ UNCHANGED <<cfg, df, caller, start_index, end_index, i, end,
                   entry_price, entry_i, high_watermark, signal, exit_reason,
                   wfvars, result>>

NoSim == [ trades |-> <<>>, equity_curve |-> <<>>, metrics |-> <<>> ]

\* an empty dict / no value yet
EmptyDict == <<>>

\* the locals of _simulate_range before its first call
SimIdle ==
    /\ i = 0 /\ end = 0
    /\ cash = Zero /\ qty = Zero /\ entry_price = Zero /\ entry_i = NoBar
    /\ high_watermark = Zero
    /\ trades = <<>> /\ equity_curve = <<>>
    /\ signal = "none" /\ exit_reason = "none"
    /\ sim = NoSim

\* the orchestrator's locals before its first statement
WfIdle ==
    /\ idx = 0
    /\ split_rows = <<>>
    /\ all_trades = <<>>
    /\ combined_equity_curve = <<>>
    /\ thresholds = EmptyDict
    /\ result = EmptyDict

\* a single call of the simulator: nothing is replayed
ReplayIdle ==
    /\ run = 1
    /\ log = <<>>
    /\ first = EmptyDict

\* the strategy object as its constructor leaves it: no direction cache
\* (self._htf_direction_cache = None); writer is the split whose call built
\* the cache
NewStrategy == [ built |-> FALSE, cache |-> EmptyDict, writer |-> -1 ]

\* no split runs as a task of its own
ParIdle ==
    /\ strategy = NewStrategy
    /\ source = EmptyDict
    /\ tasks = EmptyDict
    /\ cur = 0
    /\ asked = FALSE

\* run_bot has not been started
BotIdle == bot = EmptyDict

\* arguments of a direct call: a start that is clamped up to 1 or not, an
\* end inside the series or clamped down to its length, empty ranges
StartIndexes == {0, 2}
EndIndexes == {MaxBars - 1, MaxBars + 1}

\* a direct call _simulate_range(df, ..., start_index, end_index, capital)
InitRange ==
    /\ cfg \in Configs
    /\ df \in BarSeries
    /\ caller = "range"
    /\ pc = "sim_begin"
    /\ start_index \in StartIndexes
    /\ end_index \in EndIndexes
    /\ SimIdle
    /\ WfIdle
    /\ ReplayIdle
    /\ ParIdle
    /\ BotIdle

NextRange ==
    \/ SimBegin /\ UNCHANGED idlevars
    \/ SimStep /\ UNCHANGED idlevars
    \/ SimFinish /\ UNCHANGED idlevars

SpecRange == InitRange /\ [][NextRange]_vars

(***************************************************************************)
(* run_backtest.                                                           *)
(*                                                                         *)
(* The history thresholds of the source (warm-up >= 50 bars, 10 bars of    *)
(* margin, 60 bars at least, 30 bars per split) are scaled down so that a  *)
(* simulated range has a handful of bars.                                  *)
(***************************************************************************)
\* the "+ 10" of min_bars = max(MIN_SIGNAL_WARMUP_BARS + 10, 60), scaled
WarmupMargin == 1
\* the "60" of min_bars, scaled
MinHistory == 3
\* the "200" of simulated["trades"][-200:], the trades kept in a result,
\* scaled
TradesKept == 2

\* settings.MIN_SIGNAL_WARMUP_BARS
WarmupValues == 1..2

\* lst[:n]
LastN_first(lst, n) ==
    IF Len(lst) <= n THEN lst ELSE SubSeq(lst, 1, n)

\* lst[-n:]
LastN(lst, n) ==
    IF Len(lst) <= n THEN lst ELSE SubSeq(lst, Len(lst) - n + 1, Len(lst))

\* min_bars of run_backtest without the floor of MinHistory bars
min_bars_no_floor == cfg.warmup + WarmupMargin

\* min_bars = max(settings.MIN_SIGNAL_WARMUP_BARS + 10, 60)
min_bars == Max(cfg.warmup + WarmupMargin, MinHistory)

\* run_backtest up to the call of the simulator
BTBegin ==
    /\ pc = "bt_begin"
    /\ IF df = <<>> \/ Len(df) < min_bars
       THEN /\ result' = [ error |-> "Not enough data for backtest.",
                           trades |-> <<>>,
                           equity_curve |-> <<>>,
                           metrics |-> EmptyDict ]
            /\ pc' = "done"
            /\ UNCHANGED <<start_index, end_index>>
       ELSE /\ start_index' = cfg.warmup
            /\ end_index' = Len(df)
            /\ pc' = "sim_begin"
            /\ result' = result
    /\ UNCHANGED <<cfg, df, caller, i, end, cash, qty, entry_price, entry_i,
                   high_watermark, trades, equity_curve, signal, exit_reason,
                   sim, wfvars>>

\* run_backtest after the simulator has returned
BTReturn ==
    /\ pc = "sim_done"
    /\ caller = "backtest"
    /\ result' = [ trades |-> LastN(sim.trades, TradesKept),
                   equity_curve |-> sim.equity_curve,
                   metrics |-> sim.metrics ]
    /\ pc' = "done"
    /\ UNCHANGED <<cfg, df, caller, simvars, wfvars>>

InitBacktest ==
    /\ \E c \in Configs, w \in WarmupValues : cfg = Merge(c, [warmup |-> w])
    /\ df \in BarSeries
    /\ caller = "backtest"
    /\ pc = "bt_begin"
    /\ start_index = 0
    /\ end_index = 0
    /\ SimIdle
    /\ WfIdle
    /\ ReplayIdle
    /\ ParIdle
    /\ BotIdle

NextBacktest ==
    \/ BTBegin /\ UNCHANGED idlevars
    \/ SimBegin /\ UNCHANGED idlevars
    \/ SimStep /\ UNCHANGED idlevars
    \/ SimFinish /\ UNCHANGED idlevars
    \/ BTReturn /\ UNCHANGED idlevars

SpecBacktest == InitBacktest /\ [][NextBacktest]_vars

(***************************************************************************)
(* run_walk_forward_backtest.                                              *)
(***************************************************************************)
\* settings.WALK_FORWARD_SPLITS and settings.WALK_FORWARD_MIN_BARS_PER_SPLIT
WalkForwardSplitValues == 1..3
MinBarsPerSplitValues == 1..2

\* settings.WALK_FORWARD_MIN_TRADES, _MIN_WIN_RATE_PCT, _MIN_PROFIT_FACTOR
ThresholdValues ==
    [ min_trades : {1, 4},
      min_win_rate_pct : {R(50, 1)},
      min_profit_factor : {One} ]

\* the simulator settings used under the orchestrator
WalkForwardConfigs ==
    { c \in Configs : /\ c.partial_fill = R(1, 2)
                      /\ c.risk_pct = R(1, 2)
                      /\ c.max_hold_bars = 2
                      /\ c.latency_bars <= 1 }

\* the histories given to the orchestrator: one bar more than BarSeries, so
\* that a split can hold a winning and a losing trade.  Bar 0 is warm-up
\* history for every warmup of WarmupValues: the orchestrator reads no close
\* before start_index, so one close stands for it
WalkForwardSeries ==
    { s \in UNION { SeqsOfLen(Closes, n) : n \in 0..(MaxBars + 1) } :
        s # <<>> => s[1] = 2 }

\* available = len(df) - warmup
available == Len(df) - cfg.warmup

\* max_splits rounded up instead of down
max_splits_ceil == (available + cfg.wf_min_bars - 1) \div cfg.wf_min_bars

\* max_splits = available // settings.WALK_FORWARD_MIN_BARS_PER_SPLIT
max_splits == available \div cfg.wf_min_bars

\* the configured split count taken without the clamp to max_splits
splits_unclamped == cfg.wf_splits

\* splits = min(settings.WALK_FORWARD_SPLITS, max_splits)
splits == Min(cfg.wf_splits, max_splits)

\* split_size = available // splits
split_size == available \div splits

\* the guard "splits < 2" weakened to "no split at all"
TooFewSplits_none(n) == n < 1

\* if splits < 2: return the error result
TooFewSplits(n) == n < 2

\* start_i of split k (k = 0 .. splits - 1)
SplitStart(k) == cfg.warmup + (k * split_size)

\* end_i of a split that never absorbs the remainder
SplitEnd_equal(k) == cfg.warmup + ((k + 1) * split_size)

\* end_i of split k: the last split ends at len(df)
SplitEnd(k) ==
    IF k < splits - 1 THEN cfg.warmup + ((k + 1) * split_size) ELSE Len(df)

\* the result carries an error field
IsError(r) == "error" \in DOMAIN r

WfError(msg) == [ error |-> msg, splits |-> <<>>, metrics |-> EmptyDict ]

\* run_walk_forward_backtest up to the loop over the splits
WFBegin ==
    /\ pc = "wf_begin"
    /\ IF df = <<>>
       THEN /\ result' = WfError("Not enough data for walk-forward backtest.")
            /\ pc' = "done"
       ELSE IF available < cfg.wf_min_bars * 2
       THEN /\ result' = WfError("Not enough data for walk-forward splits.")
            /\ pc' = "done"
       ELSE IF TooFewSplits(splits)
       THEN /\ result' = WfError("Not enough data for walk-forward splits.")
            /\ pc' = "done"
       ELSE /\ result' = result
            /\ pc' = "wf_loop"
    /\ idx' = 0
    /\ split_rows' = <<>>
    /\ all_trades' = <<>>
    /\ combined_equity_curve' = <<>>
    /\ UNCHANGED <<cfg, df, caller, simvars, thresholds>>

\* head of the loop over the splits: skip the split or call the simulator
WFSplit ==
    /\ pc = "wf_loop"
    /\ idx < splits
    /\ LET start_i == SplitStart(idx)
           end_i == SplitEnd(idx)
       IN  IF (end_i - start_i) < cfg.wf_min_bars
           THEN /\ idx' = idx + 1
                /\ UNCHANGED <<pc, start_index, end_index>>
           ELSE /\ start_index' = start_i
                /\ end_index' = end_i
                /\ pc' = "sim_begin"
                /\ idx' = idx
    /\ UNCHANGED <<cfg, df, caller, i, end, cash, qty, entry_price, entry_i,
                   high_watermark, trades, equity_curve, signal, exit_reason,
                   sim, split_rows, all_trades, combined_equity_curve,
                   thresholds, result>>

\* rest of the loop body after the simulator has returned
Extended_replaced(list, more) == more

\* list.extend(more)
Extended(list, more) == list \o more

WFCollect ==
    /\ pc = "sim_done"
    /\ caller = "walk_forward"
    /\ split_rows' = Append(split_rows,
           [ split |-> idx + 1,
             start_time |-> start_index,
             end_time |-> end_index - 1,
             metrics |-> sim.metrics ])
    /\ all_trades' = Extended(all_trades, sim.trades)
    /\ combined_equity_curve' = Extended(combined_equity_curve,
                                         sim.equity_curve)
    /\ idx' = idx + 1
    /\ pc' = "wf_loop"
    /\ UNCHANGED <<cfg, df, caller, simvars, thresholds, result>>

\* a null profit factor scored as a very large one
ScoredProfitFactor_large(sm) ==
    IF IsNull(sm.profit_factor) THEN R(1000, 1) ELSE sm.profit_factor

\* spf = sm.get("profit_factor"); if spf is None: spf = 0.0
ScoredProfitFactor(sm) ==
    IF IsNull(sm.profit_factor) THEN Zero ELSE sm.profit_factor

\* the test that counts a split in split_passes
SplitPasses(sm, th) ==
    /\ sm.trades >= th.min_trades
    /\ RGe(sm.win_rate_pct, th.min_win_rate_pct)
    /\ RGe(ScoredProfitFactor(sm), th.min_profit_factor)

\* a result that reports only the splits that pass the thresholds
WfResult_passing_only(th) ==
    [ splits |-> SelectSeq(split_rows, LAMBDA row : SplitPasses(row.metrics, th)),
      trades |-> LastN(all_trades, TradesKept),
      equity_curve |-> combined_equity_curve,
      metrics |-> [ validation_mode |-> "walk_forward" ] ]

\* the aggregate metrics and the result returned for a non-empty list of
\* split rows, with th the thresholds read from the settings
WfResult(th) ==
    LET pnls == Pnls(all_trades)
        n == Len(split_rows)
        wins == Wins(pnls)
        losses == Losses(pnls)
        trade_count == Len(all_trades)
        win_rate == IF trade_count > 0
                    THEN RMul(R(wins, trade_count), Hundred)
                    ELSE Zero
        split_passes ==
            Cardinality({ k \in 1..n :
                            SplitPasses(split_rows[k].metrics, th) })
        aggregate_initial == RMul(cfg.initial_capital, R(n, 1))
        aggregate_final == RAdd(aggregate_initial, SumIf(pnls, 0))
    IN  [ splits |-> split_rows,
          trades |-> LastN(all_trades, TradesKept),
          equity_curve |-> combined_equity_curve,
          metrics |->
            [ validation_mode |-> "walk_forward",
              splits |-> n,
              split_passes |-> split_passes,
              split_pass_rate_pct |-> RMul(R(split_passes, n), Hundred),
              initial_capital |-> aggregate_initial,
              final_equity |-> aggregate_final,
              net_profit |-> RSub(aggregate_final, aggregate_initial),
              total_return_pct |->
                  IF RPos(aggregate_initial)
                  THEN RMul(RSub(RDiv(aggregate_final, aggregate_initial),
                                 One),
                            Hundred)
                  ELSE Zero,
              max_drawdown_pct |->
                  _max_drawdown(Equities(combined_equity_curve)),
              trades |-> trade_count,
              wins |-> wins,
              losses |-> losses,
              win_rate_pct |-> win_rate,
              profit_factor |-> _profit_factor(pnls),
              gross_profit |-> GrossProfit(pnls),
              gross_loss |-> GrossLoss(pnls) ] ]

\* after the loop: the aggregate metrics and the result
WFAggregate ==
    /\ pc = "wf_loop"
    /\ idx >= splits
    /\ \E th \in ThresholdValues :
        /\ thresholds' = th
        /\ IF split_rows = <<>>
           THEN result' = WfError("No valid walk-forward splits were generated.")
           ELSE result' = WfResult(th)
    /\ pc' = "done"
    /\ UNCHANGED <<cfg, df, caller, simvars, idx, split_rows, all_trades,
                   combined_equity_curve>>

InitWalkForward ==
    /\ \E c \in WalkForwardConfigs, w \in WarmupValues,
          n \in WalkForwardSplitValues, m \in MinBarsPerSplitValues :
          cfg = Merge(c, [warmup |-> w, wf_splits |-> n, wf_min_bars |-> m])
    /\ df \in WalkForwardSeries
    /\ caller = "walk_forward"
    /\ pc = "wf_begin"
    /\ start_index = 0
    /\ end_index = 0
    /\ SimIdle
    /\ WfIdle
    /\ ReplayIdle
    /\ ParIdle
    /\ BotIdle

NextWalkForward ==
    \/ WFBegin /\ UNCHANGED idlevars
    \/ WFSplit /\ UNCHANGED idlevars
    \/ SimBegin /\ UNCHANGED idlevars
    \/ SimStep /\ UNCHANGED idlevars
    \/ SimFinish /\ UNCHANGED idlevars
    \/ WFCollect /\ UNCHANGED idlevars
    \/ WFAggregate /\ UNCHANGED idlevars

SpecWalkForward == InitWalkForward /\ [][NextWalkForward]_vars

(***************************************************************************)
(* The metrics reducer on its own: _compute_metrics applied to a given     *)
(* trade list and equity curve.                                            *)
(***************************************************************************)
\* P&Ls of the trades handed to the reducer: a win, a loss of the same size,
\* a flat trade and a smaller win
ExitPrices == {150, 50, 100, 125}

\* a BacktestTrade of quantity 1 entered at 100 without fees, so that its
\* pnl is exit price - 100
TradeWithExit(x) ==
    Trade(0, 1, R(100, 1), R(x, 1), One, Zero, "signal_short")

TradeLists ==
    UNION { SeqsOfLen({ TradeWithExit(x) : x \in ExitPrices }, n) :
              n \in 0..MaxTrades }

\* equity curves handed to the reducer: empty, a single point, flat, and a
\* dip followed by a recovery
EquityCurves ==
    { <<>>,
      << [bar |-> 1, equity |-> R(64, 1)] >>,
      << [bar |-> 1, equity |-> R(64, 1)], [bar |-> 2, equity |-> R(64, 1)],
         [bar |-> 3, equity |-> R(64, 1)] >>,
      << [bar |-> 1, equity |-> R(64, 1)], [bar |-> 2, equity |-> R(32, 1)],
         [bar |-> 3, equity |-> R(96, 1)] >> }

\* the settings of the reducer runs: only the initial capital is read
MetricsConfigs ==
    { c \in Configs : /\ c.latency_bars = 0
                      /\ c.max_hold_bars = 1
                      /\ c.fee = R(1, 4)
                      /\ c.cost_pct = R(1, 4)
                      /\ c.partial_fill = One }

\* final_equity and metrics of _simulate_range for the trades and the
\* equity curve at hand, and the returned dict
ComputeMetrics ==
    /\ pc = "metrics_begin"
    /\ LET final_equity == IF equity_curve = <<>> THEN cash
                           ELSE equity_curve[Len(equity_curve)].equity
       IN  sim' = [ trades |-> trades, equity_curve |-> equity_curve,
                    metrics |-> _compute_metrics(cfg.initial_capital,
                                    final_equity, trades,
                                    Equities(equity_curve)) ]
    /\ pc' = "metrics_done"
    /\ UNCHANGED <<cfg, df, caller, start_index, end_index, i, end, cash, qty,
                   entry_price, entry_i, high_watermark, trades, equity_curve,
                   signal, exit_reason, wfvars, result>>

InitMetrics ==
    /\ cfg \in MetricsConfigs
    /\ df = <<>>
    /\ caller = "metrics"
    /\ pc = "metrics_begin"
    /\ start_index = 0
    /\ end_index = 0
    /\ i = 0 /\ end = 0
    /\ cash = cfg.initial_capital
    /\ qty = Zero /\ entry_price = Zero /\ entry_i = NoBar
    /\ high_watermark = Zero
    /\ trades \in TradeLists
    /\ equity_curve \in EquityCurves
    /\ signal = "none" /\ exit_reason = "none"
    /\ sim = NoSim
    /\ WfIdle
    /\ ReplayIdle
    /\ ParIdle
    /\ BotIdle

NextMetrics == ComputeMetrics /\ UNCHANGED idlevars

SpecMetrics == InitMetrics /\ [][NextMetrics]_vars

(***************************************************************************)
(* Two calls of _simulate_range in a row.  Call 1 runs on the bars df;     *)
(* call 2 runs with the same settings, range and signal source on bars     *)
(* that keep a leading part of df (all of it: the same call repeated).     *)
(* The signal source is a function of the slice df.iloc[: i + 1] it is     *)
(* handed: in call 2 it answers as in call 1 wherever the slice is the     *)
(* same.  log records the iterations of the current call.                  *)
(***************************************************************************)
\* the settings of the repeated calls
ReplayConfigs ==
    { c \in Configs :
        /\ c.latency_bars <= 1
        /\ c.fee = R(1, 4)
        /\ c.initial_capital = R(64, 1)
        /\ c.risk_pct = R(1, 2) => c.partial_fill = R(1, 2)
        /\ c.max_hold_bars <= 2 }

\* the bars of call 1
ReplaySeries == UNION { SeqsOfLen(Closes, n) : n \in 0..(MaxBars - 1) }

\* the other close of the model
OtherClose(c) == CHOOSE x \in Closes : x # c

\* bars that agree with d on bars 0 .. k - 1 and on no later bar
Diverge(d, k) == [n \in 1..Len(d) |-> IF n <= k THEN d[n] ELSE OtherClose(d[n])]

\* what one iteration of the bar loop did: the bar it evaluated, the signal
\* it was given, its decisions, and the locals it left
Iteration ==
    [ bar |-> i,
      signal |-> signal',
      exit_reason |-> exit_reason',
      entered |-> ~RPos(qty) /\ entry_i' # NoBar,
      exited |-> Len(trades') > Len(trades),
      locals |-> [ i |-> i', cash |-> cash', qty |-> qty',
                   entry_price |-> entry_price', entry_i |-> entry_i',
                   high_watermark |-> high_watermark',
                   trades |-> Len(trades'),
                   equity |-> equity_curve'[Len(equity_curve')].equity ] ]

\* strategy.generate_latest_signal(df.iloc[: i + 1]) in call 2: the answer
\* of call 1 if call 1 asked with the same slice, any answer otherwise
SameSourceAnswer(sig) ==
    \A k \in 1..Len(first.log) :
        (first.log[k].bar = i /\ i < first.agree) => sig = first.log[k].signal

RunBegin ==
    /\ SimBegin
    /\ log' = <<>>
    /\ UNCHANGED <<run, first>>

\* call 2 is followed as far as its bars agree with those of call 1
RunStep ==
    /\ run = 2 => i < first.agree
    /\ SimStep
    /\ run = 2 => SameSourceAnswer(signal')
    /\ log' = Append(log, Iteration)
    /\ UNCHANGED <<run, first>>

RunFinish ==
    /\ SimFinish
    /\ UNCHANGED replayvars

\* the second call: same settings, range and capital, bars that keep the
\* first k bars of df
Replay ==
    /\ pc = "sim_done"
    /\ run = 1
    /\ \E k \in 0..Len(df) :
        /\ df' = Diverge(df, k)
        /\ first' = [ df |-> df, agree |-> k, log |-> log, sim |-> sim ]
    /\ run' = 2
    /\ pc' = "sim_begin"
    /\ UNCHANGED <<cfg, caller, simvars, wfvars, result, log>>

InitReplay ==
    /\ cfg \in ReplayConfigs
    /\ df \in ReplaySeries
    /\ caller = "range"
    /\ pc = "sim_begin"
    /\ start_index = 0
    /\ end_index = MaxBars + 1
    /\ SimIdle
    /\ WfIdle
    /\ ReplayIdle
    /\ ParIdle
    /\ BotIdle

NextReplay ==
    \/ RunBegin /\ UNCHANGED <<parvars, bot>>
    \/ RunStep /\ UNCHANGED <<parvars, bot>>
    \/ RunFinish /\ UNCHANGED <<parvars, bot>>
    \/ Replay /\ UNCHANGED <<parvars, bot>>

SpecReplay == InitReplay /\ [][NextReplay]_vars

(***************************************************************************)
(* The signal source: TrendDeviationStrategy.generate_latest_signal        *)
(* (src/strategy/trend_deviation.py).  The strategy object keeps the       *)
(* higher-timeframe direction cache between its calls.  Higher-timeframe   *)
(* confirmation is on (settings.ENABLE_HIGHER_TIMEFRAME_CONFIRMATION), the *)
(* resample rule is the bar interval, and the signal is taken on the last  *)
(* closed candle (settings.USE_LAST_CLOSED_CANDLE).  The history           *)
(* thresholds are scaled down like those of run_backtest.                  *)
(***************************************************************************)
\* settings.HIGHER_TIMEFRAME_MIN_BARS, scaled
HtfMinBars == 3
\* the spans of the fast and the slow average of the direction, scaled
FastSpan == 1
SlowSpan == 3
\* the "3" of len(df) < max(MIN_SIGNAL_WARMUP_BARS, 3)
MinClosedBars == 3

RECURSIVE Ewm(_, _, _)
\* htf_close.ewm(span=span, adjust=False).mean() at position k of the
\* closes d
Ewm(d, k, span) ==
    LET alpha == R(2, span + 1)
    IN  IF k = 1 THEN R(d[1], 1)
        ELSE RAdd(RMul(alpha, R(d[k], 1)),
                  RMul(RSub(One, alpha), Ewm(d, k - 1, span)))

\* _build_higher_timeframe_cache(df): the dict bar -> direction of the
\* slice d, empty for a slice of fewer than HtfMinBars bars
_build_higher_timeframe_cache(d) ==
    IF Len(d) < HtfMinBars THEN EmptyDict
    ELSE [ k \in 0..(Len(d) - 1) |->
             LET ema_fast == Ewm(d, k + 1, FastSpan)
                 ema_slow == Ewm(d, k + 1, SlowSpan)
             IN  IF RGt(ema_fast, ema_slow) THEN "up"
                 ELSE IF RLt(ema_fast, ema_slow) THEN "down"
                 ELSE "neutral" ]

\* self._htf_direction_cache = self._build_higher_timeframe_cache(df), in a
\* call made by split w
CacheWritten(d, w) ==
    [ built |-> TRUE, cache |-> _build_higher_timeframe_cache(d), writer |-> w ]

\* _higher_timeframe_direction(df, j) on the strategy object st
_higher_timeframe_direction(st, d, j) ==
    LET cache == IF st.built THEN st.cache
                 ELSE _build_higher_timeframe_cache(d)
    IN  IF j \in DOMAIN cache THEN cache[j] ELSE "neutral"

\* _evaluate_signal(df, j): the signal that the rules give for the slice,
\* kept if the higher-timeframe direction confirms it (htf_long_ok,
\* htf_short_ok)
_evaluate_signal(st, d, j) ==
    LET htf_direction == _higher_timeframe_direction(st, d, j)
        rules == source[Len(d)]
    IN  IF rules = "LONG" /\ htf_direction \in {"up", "neutral"} THEN "LONG"
        ELSE IF rules = "SHORT" /\ htf_direction \in {"down", "neutral"}
        THEN "SHORT"
        ELSE "none"

\* the first statements of generate_latest_signal(df), up to the assignment
\* of the cache: the strategy object they leave
SourceEnter(st, d, w) ==
    IF Len(d) < cfg.warmup THEN st ELSE CacheWritten(d, w)

\* the rest of generate_latest_signal(df): its return value
SourceAnswer(st, d) ==
    IF Len(d) < cfg.warmup THEN "none"
    ELSE IF Len(d) < Max(cfg.warmup, MinClosedBars) THEN "none"
    ELSE _evaluate_signal(st, d, Len(d) - 2)

\* df.iloc[: i + 1]
Slice == SubSeq(df, 1, i + 1)

(***************************************************************************)
(* run_walk_forward_backtest twice on the same history, with the strategy  *)
(* object of the source as signal source.  Call 1 is the sequential loop   *)
(* over the splits.  Call 2 runs the body of that loop as one task per     *)
(* split, all tasks sharing the one strategy object; the tasks interleave  *)
(* between the statements of the simulator and inside                      *)
(* generate_latest_signal between the assignment of the cache and the      *)
(* evaluation that reads it; the rows are collected in split order.        *)
(***************************************************************************)
\* the locals of the simulation that is running
Context ==
    [ pc |-> pc, start_index |-> start_index, end_index |-> end_index,
      i |-> i, end |-> end, cash |-> cash, qty |-> qty,
      entry_price |-> entry_price, entry_i |-> entry_i,
      high_watermark |-> high_watermark, trades |-> trades,
      equity_curve |-> equity_curve, signal |-> signal,
      exit_reason |-> exit_reason, sim |-> sim, asked |-> asked ]

\* the locals of a task that has not started
NewContext ==
    [ pc |-> "task_begin", start_index |-> 0, end_index |-> 0,
      i |-> 0, end |-> 0, cash |-> Zero, qty |-> Zero,
      entry_price |-> Zero, entry_i |-> NoBar,
      high_watermark |-> Zero, trades |-> <<>>,
      equity_curve |-> <<>>, signal |-> "none",
      exit_reason |-> "none", sim |-> NoSim, asked |-> FALSE ]

\* the task with the locals c becomes the running one
Resume(c) ==
    /\ pc' = c.pc
    /\ start_index' = c.start_index
    /\ end_index' = c.end_index
    /\ i' = c.i
    /\ end' = c.end
    /\ cash' = c.cash
    /\ qty' = c.qty
    /\ entry_price' = c.entry_price
    /\ entry_i' = c.entry_i
    /\ high_watermark' = c.high_watermark
    /\ trades' = c.trades
    /\ equity_curve' = c.equity_curve
    /\ signal' = c.signal
    /\ exit_reason' = c.exit_reason
    /\ sim' = c.sim
    /\ asked' = c.asked

\* an iteration of the bar loop in call 1: the simulator asks the source in
\* one step
SeqStep ==
    /\ run = 1
    /\ SimStep
    /\ strategy' = SourceEnter(strategy, Slice, idx)
    /\ signal' = SourceAnswer(strategy', Slice)
    /\ UNCHANGED <<replayvars, source, tasks, cur, asked>>

\* call 2 starts: a new strategy object, one task per split
Parallel ==
    /\ run = 1
    /\ pc = "done"
    /\ ~IsError(result)
    /\ run' = 2
    /\ first' = [ result |-> result, thresholds |-> thresholds ]
    /\ strategy' = NewStrategy
    /\ tasks' = [ k \in 0..(splits - 1) |-> NewContext ]
    /\ cur' = 0
    /\ Resume(NewContext)
    /\ idx' = 0
    /\ split_rows' = <<>>
    /\ all_trades' = <<>>
    /\ combined_equity_curve' = <<>>
    /\ thresholds' = EmptyDict
    /\ result' = EmptyDict
    /\ UNCHANGED <<cfg, df, caller, log, source>>

\* the head of the loop body for the split of the running task
TaskBegin ==
    /\ run = 2
    /\ pc = "task_begin"
    /\ LET start_i == SplitStart(cur)
           end_i == SplitEnd(cur)
       IN  IF (end_i - start_i) < cfg.wf_min_bars
           THEN /\ pc' = "skipped"
                /\ UNCHANGED <<start_index, end_index>>
           ELSE /\ start_index' = start_i
                /\ end_index' = end_i
                /\ pc' = "sim_begin"
    /\ UNCHANGED <<cfg, df, caller, i, end, cash, qty, entry_price, entry_i,
                   high_watermark, trades, equity_curve, signal, exit_reason,
                   sim, wfvars, result, idlevars>>

\* the running task enters generate_latest_signal and assigns the cache
TaskAsk ==
    /\ run = 2
    /\ pc = "loop"
    /\ i < end
    /\ ~asked
    /\ asked' = TRUE
    /\ strategy' = SourceEnter(strategy, Slice, cur)
    /\ UNCHANGED <<cfg, df, caller, pc, simvars, wfvars, result, replayvars,
                   source, tasks, cur>>

\* the running task evaluates the signal on the cache of the strategy
\* object and finishes the iteration of the bar loop
TaskStep ==
    /\ run = 2
    /\ asked
    /\ SimStep
    /\ signal' = SourceAnswer(strategy, Slice)
    /\ asked' = FALSE
    /\ UNCHANGED <<replayvars, strategy, source, tasks, cur>>

\* the task has returned from the simulator or was skipped
Finished(c) == c.pc \in {"sim_done", "skipped"}

\* another task gets to run
Switch ==
    /\ run = 2
    /\ pc \in {"task_begin", "sim_begin", "loop", "sim_done", "skipped"}
    /\ \E k \in (DOMAIN tasks) \ {cur} :
        /\ ~Finished(tasks[k])
        /\ tasks' = [tasks EXCEPT ![cur] = Context]
        /\ cur' = k
        /\ Resume(tasks[k])
    /\ UNCHANGED <<cfg, df, caller, wfvars, result, replayvars, strategy,
                   source>>

RECURSIVE Gather(_, _, _)
\* the rows, trades and equity points of the tasks k .. n - 1 that ran the
\* simulator, in split order
Gather(all, k, n) ==
    IF k >= n
    THEN [ rows |-> <<>>, trades |-> <<>>, curve |-> <<>> ]
    ELSE LET rest == Gather(all, k + 1, n)
             c == all[k]
         IN  IF c.pc = "skipped" THEN rest
             ELSE [ rows |-> << [ split |-> k + 1,
                                  start_time |-> c.start_index,
                                  end_time |-> c.end_index - 1,
                                  metrics |-> c.sim.metrics ] >> \o rest.rows,
                    trades |-> c.sim.trades \o rest.trades,
                    curve |-> c.sim.equity_curve \o rest.curve ]

\* all tasks are done: their results are collected in split order
TaskCollect ==
    /\ run = 2
    /\ Finished(Context)
    /\ \A k \in (DOMAIN tasks) \ {cur} : Finished(tasks[k])
    /\ LET all == [tasks EXCEPT ![cur] = Context]
           g == Gather(all, 0, splits)
       IN  /\ tasks' = all
           /\ split_rows' = g.rows
           /\ all_trades' = g.trades
           /\ combined_equity_curve' = g.curve
    /\ idx' = splits
    /\ pc' = "wf_loop"
    /\ UNCHANGED <<cfg, df, caller, simvars, thresholds, result, replayvars,
                   strategy, source, cur, asked>>

\* the aggregate metrics of call 2, scored with the thresholds of call 1
TaskAggregate ==
    /\ run = 2
    /\ WFAggregate
    /\ thresholds' = first.thresholds
    /\ UNCHANGED idlevars

\* the settings of the two calls: two splits of at least two bars after a
\* warm-up of one bar
ParallelConfigs ==
    { Merge(c, [warmup |-> 1, wf_splits |-> 2, wf_min_bars |-> 2]) :
        c \in { c \in Configs : /\ c.latency_bars = 0
                                /\ c.partial_fill = One
                                /\ c.fee = R(1, 4)
                                /\ c.cost_pct = R(1, 4)
                                /\ c.initial_capital = R(64, 1)
                                /\ c.max_hold_bars = 96
                                /\ c.trailing_stop_pct = Zero } }

\* the histories of the two calls: MaxBars bars, the first close being 2
ParallelSeries == { d \in SeqsOfLen(Closes, MaxBars) : d[1] = 2 }

\* the signals that the rules of the strategy give for the slices of the
\* history, by slice length; a slice too short for a closed candle gets
\* none
Sources ==
    { s \in [ 1..MaxBars -> Signals ] :
        \A n \in 1..MaxBars : n < MinClosedBars => s[n] = "none" }

InitParallel ==
    /\ cfg \in ParallelConfigs
    /\ df \in ParallelSeries
    /\ caller = "walk_forward"
    /\ pc = "wf_begin"
    /\ start_index = 0
    /\ end_index = 0
    /\ SimIdle
    /\ WfIdle
    /\ ReplayIdle
    /\ strategy = NewStrategy
    /\ source \in Sources
    /\ tasks = EmptyDict
    /\ cur = 0
    /\ asked = FALSE
    /\ BotIdle

\* call 1 is the sequential orchestrator, scored with thresholds that ask
\* for one trade; the statements of the simulator before and after the bar
\* loop are the same in both calls
NextParallel ==
    \/ run = 1 /\ WFBegin /\ UNCHANGED idlevars
    \/ run = 1 /\ WFSplit /\ UNCHANGED idlevars
    \/ SimBegin /\ UNCHANGED idlevars
    \/ SeqStep /\ UNCHANGED bot
    \/ SimFinish /\ UNCHANGED idlevars
    \/ run = 1 /\ WFCollect /\ UNCHANGED idlevars
    \/ run = 1 /\ WFAggregate /\ thresholds'.min_trades = 1 /\ UNCHANGED idlevars
    \/ Parallel /\ UNCHANGED bot
    \/ TaskBegin
    \/ TaskAsk /\ UNCHANGED bot
    \/ TaskStep /\ UNCHANGED bot
    \/ Switch /\ UNCHANGED bot
    \/ TaskCollect /\ UNCHANGED bot
    \/ TaskAggregate

SpecParallel == InitParallel /\ [][NextParallel]_vars

(***************************************************************************)
(* Properties of _simulate_range (checked under SpecRange).                *)
(***************************************************************************)
\* the clamped start of the range
ClampedStart == Max(start_index, 1)

\* C1: a call that does not take the empty-range early return yields an
\* equity curve with exactly end - start points, one for each bar of the
\* range in bar order, also when a fill is delayed by latency_bars >= 1.
C1_EquityCurveCoversRange ==
    (pc = "sim_done" /\ ClampedStart < end) =>
        /\ Len(sim.equity_curve) = end - ClampedStart
        /\ \A k \in 1..Len(sim.equity_curve) :
               sim.equity_curve[k].bar = ClampedStart + k - 1

\* the exit conditions of a bar as the claim lists them, evaluated on the
\* state before the iteration; guarded = TRUE adds "percentage > 0" to the
\* three price triggers
ListedReason(sig, guarded) ==
    LET close_price == Close(i)
        hwm == RMax(high_watermark, close_price)
        held == i - entry_i
        stop == /\ guarded => RPos(cfg.stop_loss_pct)
                /\ RLe(close_price, RMul(entry_price, RSub(One, cfg.stop_loss_pct)))
        take == /\ guarded => RPos(cfg.take_profit_pct)
                /\ RGe(close_price, RMul(entry_price, RAdd(One, cfg.take_profit_pct)))
        trail == /\ guarded => RPos(cfg.trailing_stop_pct)
                 /\ RGt(hwm, entry_price)
                 /\ RLe(close_price, RMul(hwm, RSub(One, cfg.trailing_stop_pct)))
        hold == held >= cfg.max_hold_bars
        short == sig = "SHORT"
    IN  CASE stop -> "stop_loss"
          [] ~stop /\ take -> "take_profit"
          [] ~stop /\ ~take /\ trail -> "trailing_stop"
          [] ~stop /\ ~take /\ ~trail /\ hold -> "max_hold"
          [] ~stop /\ ~take /\ ~trail /\ ~hold /\ short -> "signal_short"
          [] OTHER -> "none"

\* an iteration of the bar loop that starts with an open position
OpenIteration == pc = "loop" /\ i < end /\ RPos(qty) /\ i' # i

\* C2 as stated: on every bar with an open position the exit reason is the
\* first whose condition holds in the order stop_loss, take_profit,
\* trailing_stop, max_hold, signal_short, the price triggers being the bare
\* price comparisons.
C2_Original ==
    [][OpenIteration => exit_reason' = ListedReason(signal', FALSE)]_vars

\* C2 (amended): on every bar with an open position the exit reason is the
\* first whose condition holds in the listed order, where stop_loss,
\* take_profit and trailing_stop also require their percentage to be > 0;
\* so when the stop-loss condition holds together with any later one the
\* reason is stop_loss.
C2_ExitPriority ==
    [][OpenIteration => exit_reason' = ListedReason(signal', TRUE)]_vars

\* a stop-loss exit was chosen on a bar whose signal was SHORT, so the
\* signal_short condition held as well
C2_Witness ==
    /\ pc = "loop"
    /\ exit_reason = "stop_loss"
    /\ signal = "SHORT"
    /\ trades # <<>>

\* C3: in every state of the simulation, after every iteration and after
\* the end-of-range close, cash >= 0 and quantity >= 0.
C3_CashAndQtyNonNegative ==
    /\ RGe(cash, Zero)
    /\ RGe(qty, Zero)

\* an all-in entry has been filled: all the cash is in the position
C3_Witness ==
    /\ pc = "loop"
    /\ RPos(qty)
    /\ cash = Zero
    /\ RPos(cfg.fee)

\* C4: at every loop-iteration boundary quantity > 0 iff entry_price > 0.
C4_QtyIffEntryPrice ==
    pc = "loop" => (RPos(qty) <=> RPos(entry_price))

\* a position that stays open after a partial exit fill
C4_Witness ==
    /\ pc = "loop"
    /\ RPos(qty)
    /\ RPos(entry_price)
    /\ trades # <<>>
    /\ trades[Len(trades)].entry_i = entry_i

\* the step that leaves the bar loop with an open position
FinishOpen == pc = "loop" /\ pc' = "sim_done" /\ RPos(qty)

\* C5: if the bar loop ends with quantity > 0, exactly one more trade is
\* appended: exit_reason end_of_test, exit bar end - 1, exit price that
\* bar's close with the sell-side cost, closed quantity the whole remaining
\* quantity; afterwards the quantity is 0 and the last equity point is the
\* post-close cash, which is also metrics.final_equity.
C5_EndOfRangeClose ==
    [][FinishOpen =>
        /\ Len(trades') = Len(trades) + 1
        /\ SubSeq(trades', 1, Len(trades)) = trades
        /\ LET t == trades'[Len(trades')]
           IN  /\ t.exit_reason = "end_of_test"
               /\ t.exit_i = end - 1
               /\ t.exit_price = RMul(Close(end - 1), RSub(One, cfg.cost_pct))
               /\ t.qty = qty
        /\ qty' = Zero
        /\ sim'.trades = trades'
        /\ sim'.equity_curve # <<>>
        /\ sim'.equity_curve[Len(sim'.equity_curve)].equity = cash'
        /\ sim'.metrics.final_equity = cash'
      ]_vars

\* a simulation has returned after an end-of-range close with execution
\* cost and commission
C5_Witness ==
    /\ pc = "sim_done"
    /\ sim.trades # <<>>
    /\ sim.trades[Len(sim.trades)].exit_reason = "end_of_test"
    /\ RPos(cfg.cost_pct)
    /\ RPos(cash)

\* the range is empty after clamping
EmptyRange == ClampedStart >= Min(end_index, Len(df))

\* C14: if start >= end after clamping start to >= 1 and end to
\* <= len(bars), _simulate_range returns empty trades and an empty equity
\* curve with the metrics of zero trades on flat equity: final_equity =
\* initial capital, net_profit 0, trades = wins = losses = 0, win rate 0,
\* max drawdown 0, Sharpe 0, profit factor null; no iteration of the bar
\* loop runs, so no bar is read and no signal is requested.
C14_EmptyRange ==
    (pc = "sim_done" /\ EmptyRange) =>
        /\ sim.trades = <<>>
        /\ sim.equity_curve = <<>>
        /\ sim.metrics =
              [ initial_capital |-> cfg.initial_capital,
                final_equity |-> cfg.initial_capital,
                net_profit |-> Zero,
                total_return_pct |-> Zero,
                max_drawdown_pct |-> Zero,
                sharpe |-> Zero,
                trades |-> 0,
                wins |-> 0,
                losses |-> 0,
                win_rate_pct |-> Zero,
                profit_factor |-> Null ]
        /\ i = ClampedStart
        /\ equity_curve = <<>>
        /\ trades = <<>>
        /\ signal = "none"
        /\ cash = cfg.initial_capital

\* a call has returned for a start index beyond the clamped end of a
\* series of two bars
C14_Witness ==
    /\ pc = "sim_done"
    /\ start_index = 2
    /\ Len(df) = 2
    /\ end_index > Len(df)
    /\ RPos(cfg.initial_capital)
    /\ sim.metrics.trades = 0

\* an iteration of the bar loop that starts with a flat position
FlatIteration == pc = "loop" /\ i < end /\ ~RPos(qty) /\ i' # i

\* allocation = min(cash, cash * risk_pct) * partial_fill is positive
PositiveAllocation ==
    RPos(RMul(RMin(cash, RMul(cash, cfg.risk_pct)), cfg.partial_fill))

\* C18: when a LONG signal arrives at bar i while the position is flat and
\* the allocation is positive, the position is opened at the close of bar
\* min(i + latency_bars, end - 1) with the buy-side cost, the entry bar is
\* that fill bar and the next bar evaluated is the one after it: no exit
\* trigger is evaluated on the fill bar or between bar i and the fill bar.
C18_EntryFillLatency ==
    [][(FlatIteration /\ signal' = "LONG" /\ PositiveAllocation) =>
        LET f == Min(i + cfg.latency_bars, end - 1)
            raw == R(df[f + 1], 1)
        IN  /\ RPos(qty')
            /\ entry_price' = RMul(raw, RAdd(One, cfg.cost_pct))
            /\ RGe(entry_price', raw)
            /\ entry_i' = f
            /\ high_watermark' = raw
            /\ i' = f + 1
            /\ exit_reason' = "none"
            /\ trades' = trades
            /\ Len(equity_curve') = Len(equity_curve) + 1
      ]_vars

\* an entry signalled at bar i was filled two bars later with execution
\* cost; the loop is at the bar after the fill
C18_Witness ==
    /\ pc = "loop"
    /\ RPos(qty)
    /\ cfg.latency_bars = 2
    /\ RPos(cfg.cost_pct)
    /\ entry_i = i - 1
    /\ equity_curve # <<>>
    /\ equity_curve[Len(equity_curve)].bar = entry_i - 2
    /\ signal = "LONG"

\* an iteration of the bar loop that fills an exit
ExitIteration == OpenIteration /\ exit_reason' # "none"

\* C19: each exit fill closes quantity * partial_fill_fraction (the whole
\* quantity if that product is <= 0) and appends exactly one trade; the
\* position resets to flat (quantity 0, entry_price 0, no entry bar,
\* high_watermark 0) exactly when the remaining quantity is <= 1e-12, and
\* otherwise stays open with entry_price and entry bar unchanged.
C19_ExitFill ==
    [][ExitIteration =>
        LET part == RMul(qty, cfg.partial_fill)
            closed == IF RLe(part, Zero) THEN qty ELSE part
            left == RSub(qty, closed)
        IN  /\ Len(trades') = Len(trades) + 1
            /\ SubSeq(trades', 1, Len(trades)) = trades
            /\ trades'[Len(trades')].qty = closed
            /\ trades'[Len(trades')].exit_reason = exit_reason'
            /\ IF LeEps12(left)
               THEN /\ qty' = Zero
                    /\ entry_price' = Zero
                    /\ entry_i' = NoBar
                    /\ high_watermark' = Zero
               ELSE /\ qty' = left
                    /\ RPos(qty')
                    /\ entry_price' = entry_price
                    /\ entry_i' = entry_i
                    /\ RPos(high_watermark')
      ]_vars

\* a position that is still open after its second partial exit fill
C19_Witness ==
    /\ pc = "loop"
    /\ RPos(qty)
    /\ Len(trades) >= 2
    /\ trades[Len(trades)].entry_i = entry_i
    /\ trades[Len(trades) - 1].entry_i = entry_i
    /\ trades[Len(trades)].qty = qty
    /\ cfg.partial_fill = R(1, 2)

\* C20: with partial-fill fraction 1 a position opened at fill bar e is
\* closed by an exit fill at a bar <= min(e + max_hold_bars + latency_bars,
\* end - 1) or by the end-of-range close, and is never open after bar
\* e + max_hold_bars + latency_bars.
C20_BoundedHolding ==
    cfg.partial_fill = One =>
        /\ (pc = "loop" /\ RPos(qty)) =>
              /\ entry_i # NoBar
              /\ i <= entry_i + cfg.max_hold_bars
        /\ \A k \in 1..Len(trades) :
              /\ trades[k].exit_i
                    <= trades[k].entry_i + cfg.max_hold_bars + cfg.latency_bars
              /\ trades[k].exit_i <= end - 1
        /\ pc = "sim_done" => qty = Zero

\* a max_hold exit filled at the last bar the cap allows, with latency
C20_Witness ==
    /\ cfg.partial_fill = One
    /\ cfg.latency_bars >= 1
    /\ trades # <<>>
    /\ LET t == trades[Len(trades)]
       IN  /\ t.exit_reason = "max_hold"
           /\ t.exit_i = t.entry_i + cfg.max_hold_bars + cfg.latency_bars

RECURSIVE MaxClose(_, _)
\* the largest close of the bars a .. b
MaxClose(a, b) ==
    IF a >= b THEN Close(a) ELSE RMax(Close(a), MaxClose(a + 1, b))

\* C21: while a position is open, high_watermark is the running maximum of
\* the closes of all bars since the entry fill bar, so it is >= the close of
\* every bar from the entry fill bar through the last bar the cursor has
\* passed; it is 0 whenever the position is flat.
C21_HighWatermark ==
    pc = "loop" =>
        IF RPos(qty)
        THEN /\ entry_i # NoBar
             /\ high_watermark = MaxClose(entry_i, i - 1)
             /\ \A k \in entry_i..(i - 1) : RGe(high_watermark, Close(k))
        ELSE high_watermark = Zero

\* an iteration of the bar loop
LoopIteration == pc = "loop" /\ i < end /\ i' # i

\* the iteration filled an entry: the allocation was taken from the cash
EntryFill == RLt(cash', cash)

\* the iteration filled an exit: a trade was appended
ExitFill == Len(trades') > Len(trades)

\* C22: an entry is filled only when quantity = 0, so a LONG signal
\* received while a position is open (a partially closed one included)
\* never adds to it; a SHORT signal received while flat changes nothing;
\* each iteration performs at most one fill, an entry or an exit.
C22_OnePositionSlot ==
    [][LoopIteration =>
        /\ EntryFill => qty = Zero
        /\ (RPos(qty) /\ signal' = "LONG") =>
              /\ RLe(qty', qty)
              /\ RGe(cash', cash)
              /\ entry_price' \in {entry_price, Zero}
              /\ entry_i' \in {entry_i, NoBar}
        /\ (qty = Zero /\ signal' = "SHORT") =>
              /\ UNCHANGED <<qty, cash, entry_price, entry_i, high_watermark,
                             trades>>
              /\ i' = i + 1
        /\ ~(EntryFill /\ ExitFill)
        /\ Len(trades') <= Len(trades) + 1
      ]_vars

\* a LONG signal arrived on a bar where a partially closed position was
\* open and no exit was due; the position was left as it was
C22_Witness ==
    /\ pc = "loop"
    /\ signal = "LONG"
    /\ exit_reason = "none"
    /\ RPos(qty)
    /\ entry_i < i - 1
    /\ trades # <<>>
    /\ trades[Len(trades)].entry_i = entry_i
    /\ equity_curve[Len(equity_curve)].bar = i - 1

\* C30: in the trade list of _simulate_range every trade's entry bar is
\* <= its exit bar, strictly before it unless the trade is the end-of-range
\* close; the exit bars never decrease along the list; end_of_test occurs at
\* most once and only as the last trade.  Stated for the list at every
\* point of the simulation, the returned list included.
C30_TradeOrdering ==
    /\ \A k \in 1..Len(trades) :
          /\ trades[k].entry_i <= trades[k].exit_i
          /\ trades[k].exit_reason # "end_of_test" =>
                trades[k].entry_i < trades[k].exit_i
          /\ trades[k].exit_reason = "end_of_test" => k = Len(trades)
    /\ \A k \in 1..(Len(trades) - 1) :
          trades[k].exit_i <= trades[k + 1].exit_i
    /\ pc = "sim_done" => sim.trades = trades

\* C30 witness: a returned list of an exit inside the range followed by
\* the end-of-range close of a position entered on the last bar
C30_Witness ==
    /\ pc = "sim_done"
    /\ Len(sim.trades) = 2
    /\ sim.trades[1].exit_reason # "end_of_test"
    /\ sim.trades[1].exit_i < sim.trades[2].exit_i
    /\ sim.trades[2].exit_reason = "end_of_test"
    /\ sim.trades[2].entry_i = sim.trades[2].exit_i

(***************************************************************************)
(* The protective exit of the live path next to the exit evaluation of the *)
(* simulator (SpecRange)                                                   *)
(***************************************************************************)
_build_protective_exit_signal_any_trail(mark_price, position_meta, aged) ==
    IF position_meta = EmptyDict \/ mark_price = Null THEN "none"
    ELSE IF ~RPos(position_meta.entry_price) \/ ~RPos(mark_price) THEN "none"
    ELSE IF /\ RPos(cfg.stop_loss_pct)
            /\ RLe(mark_price, RMul(position_meta.entry_price,
                                    RSub(One, cfg.stop_loss_pct)))
    THEN "stop_loss"
    ELSE IF /\ RPos(cfg.take_profit_pct)
            /\ RGe(mark_price, RMul(position_meta.entry_price,
                                    RAdd(One, cfg.take_profit_pct)))
    THEN "take_profit"
    ELSE IF /\ RPos(cfg.trailing_stop_pct)
            /\ RLe(mark_price, RMul(position_meta.high_watermark,
                                    RSub(One, cfg.trailing_stop_pct)))
    THEN "trailing_stop"
    ELSE IF aged THEN "max_hold"
    ELSE "none"

\* main._build_protective_exit_signal: the reason of the signal it returns,
\* "none" for None; aged says that the wall-clock age of the position has
\* reached MAX_HOLD_BARS bars of the timeframe
_build_protective_exit_signal(mark_price, position_meta, aged) ==
    IF position_meta = EmptyDict \/ mark_price = Null THEN "none"
    ELSE
    LET entry == position_meta.entry_price
        hwm == position_meta.high_watermark
        stop_price == RMul(entry, RSub(One, cfg.stop_loss_pct))
        take_profit_price == RMul(entry, RAdd(One, cfg.take_profit_pct))
        trailing_price == RMul(hwm, RSub(One, cfg.trailing_stop_pct))
    IN  IF ~RPos(entry) \/ ~RPos(mark_price) THEN "none"
        ELSE IF RPos(cfg.stop_loss_pct) /\ RLe(mark_price, stop_price)
        THEN "stop_loss"
        ELSE IF RPos(cfg.take_profit_pct)
                /\ RGe(mark_price, take_profit_price)
        THEN "take_profit"
        ELSE IF /\ RPos(cfg.trailing_stop_pct)
                /\ RGt(hwm, entry)
                /\ RLe(mark_price, trailing_price)
        THEN "trailing_stop"
        ELSE IF aged THEN "max_hold"
        ELSE "none"

PriceReasons == {"stop_loss", "take_profit", "trailing_stop"}

\* the simulator is about to evaluate a bar with an open position
EvaluatesOpenPosition == pc = "loop" /\ i < end /\ RPos(qty)

\* the reason the live path gives for the position and the bar at hand
LiveReason(aged) ==
    _build_protective_exit_signal(
        Close(i),
        [ entry_price |-> entry_price,
          high_watermark |-> RMax(high_watermark, Close(i)) ],
        aged)

\* the reason the simulator gives for the same bar
BacktestReason(sig) ==
    ExitReason(Close(i), RMax(high_watermark, Close(i)), i - entry_i, sig)

\* C34: for the entry price, high watermark and price of any bar the
\* simulator evaluates with an open position, the live path selects
\* stop_loss, take_profit or trailing_stop exactly when the simulator's
\* exit evaluation selects that reason, whatever the age of the position
\* and the signal; the two differ only where neither price reason applies.
C34_ProtectiveExitsAgree ==
    EvaluatesOpenPosition =>
        \A aged \in BOOLEAN, sig \in Signals, r \in PriceReasons :
            /\ LiveReason(aged) = r <=> BacktestReason(sig) = r
            /\ LiveReason(aged) \notin PriceReasons =>
                  /\ LiveReason(aged) = (IF aged THEN "max_hold" ELSE "none")
                  /\ BacktestReason(sig) \in
                        {"max_hold", "signal_short", "none"}

\* C34 witness: a bar where both paths select the trailing stop, the high
\* watermark having risen above the entry price
C34_Witness ==
    /\ EvaluatesOpenPosition
    /\ LiveReason(TRUE) = "trailing_stop"
    /\ BacktestReason("SHORT") = "trailing_stop"

(***************************************************************************)
(* Properties of run_backtest (checked under SpecBacktest) and of          *)
(* run_walk_forward_backtest (checked under SpecWalkForward).              *)
(***************************************************************************)
\* C6: in every successful walk-forward result the bar ranges of the
\* reported splits are contiguous in split order, pairwise disjoint, and
\* cover exactly [warmup, len(bars)).
C6_SplitsPartitionHistory ==
    (pc = "done" /\ ~IsError(result)) =>
        LET rows == result.splits
            n == Len(rows)
        IN  /\ n >= 1
            /\ rows[1].start_time = cfg.warmup
            /\ rows[n].end_time = Len(df) - 1
            /\ \A k \in 1..n : rows[k].start_time <= rows[k].end_time
            /\ \A k \in 1..(n - 1) : rows[k + 1].start_time = rows[k].end_time + 1

\* three splits have been reported and the last one absorbed a remainder
C6_Witness ==
    /\ pc = "done"
    /\ ~IsError(result)
    /\ Len(result.splits) = 3
    /\ LET r1 == result.splits[1]
           r3 == result.splits[3]
       IN  r3.end_time - r3.start_time > r1.end_time - r1.start_time

\* C7: run_walk_forward_backtest never returns a non-error result with
\* fewer than 2 splits; whenever fewer than 2 valid splits are available it
\* returns an error result with empty splits and empty metrics, decided
\* before any window is simulated.
C7_ErrorBelowTwoSplits ==
    pc = "done" =>
        /\ IsError(result) =>
              /\ result.splits = <<>>
              /\ result.metrics = EmptyDict
              /\ sim = NoSim
        /\ ~IsError(result) =>
              /\ Len(result.splits) >= 2
              /\ result.metrics.splits = Len(result.splits)
        /\ (\/ df = <<>>
            \/ Min(cfg.wf_splits, (Len(df) - cfg.warmup) \div cfg.wf_min_bars) < 2)
              => IsError(result)

\* three splits are configured and the bars after warm-up are one short
\* of a single split
C7_Witness ==
    /\ pc = "done"
    /\ IsError(result)
    /\ cfg.wf_splits = 3
    /\ Len(df) - cfg.warmup = cfg.wf_min_bars - 1
    /\ Len(df) - cfg.warmup >= 1

\* C8: run_backtest returns the error result, without running the
\* simulator, if the series is empty or shorter than
\* max(warmup + margin, minimum history); otherwise the result has no error
\* field and carries the simulator's metrics for [warmup, len(bars)).
C8_BacktestOrError ==
    pc = "done" =>
        IF df = <<>> \/ Len(df) < Max(cfg.warmup + WarmupMargin, MinHistory)
        THEN /\ result = [ error |-> "Not enough data for backtest.",
                           trades |-> <<>>,
                           equity_curve |-> <<>>,
                           metrics |-> EmptyDict ]
             /\ sim = NoSim
        ELSE /\ ~IsError(result)
             /\ sim # NoSim
             /\ start_index = cfg.warmup
             /\ end_index = Len(df)
             /\ result.metrics = sim.metrics
             /\ result.equity_curve = sim.equity_curve

\* the error result for a series that covers the warm-up margin but not
\* the minimum history
C8_Witness ==
    /\ pc = "done"
    /\ IsError(result)
    /\ Len(df) >= cfg.warmup + WarmupMargin
    /\ Len(df) = MinHistory - 1

\* C9: every walk-forward split starts from the configured initial capital
\* and a flat position, and a position open at the end of a split is closed
\* inside that split.
C9_FreshStatePerSplit ==
    /\ (pc = "loop" /\ equity_curve = <<>>) =>
          /\ cash = cfg.initial_capital
          /\ qty = Zero
          /\ entry_price = Zero
          /\ entry_i = NoBar
          /\ high_watermark = Zero
          /\ trades = <<>>
    /\ pc = "sim_done" =>
          /\ qty = Zero
          /\ \A k \in 1..Len(sim.trades) :
                /\ start_index <= sim.trades[k].entry_i
                /\ sim.trades[k].entry_i <= sim.trades[k].exit_i
                /\ sim.trades[k].exit_i < end_index

\* a later split starts while the split before it ended with an
\* end-of-range close and a final equity other than the initial capital
C9_Witness ==
    /\ pc = "loop"
    /\ equity_curve = <<>>
    /\ idx >= 1
    /\ split_rows[idx].metrics.final_equity # cfg.initial_capital
    /\ all_trades # <<>>
    /\ all_trades[Len(all_trades)].exit_reason = "end_of_test"

\* the pass test of a split as the claim states it
ClaimedPass(sm, th) ==
    /\ sm.trades >= th.min_trades
    /\ RLe(th.min_win_rate_pct, sm.win_rate_pct)
    /\ RLe(th.min_profit_factor,
           IF sm.profit_factor = Null THEN Zero ELSE sm.profit_factor)

\* C10: a split is counted in split_passes iff its own trade count, win
\* rate and profit factor (0 when null) reach the thresholds;
\* split_pass_rate_pct = split_passes / splits * 100 and
\* 0 <= split_passes <= splits.
C10_SplitPasses ==
    (pc = "done" /\ ~IsError(result)) =>
        LET rows == result.splits
            m == result.metrics
            passing == { k \in 1..Len(rows) : ClaimedPass(rows[k].metrics, thresholds) }
        IN  /\ m.splits = Len(rows)
            /\ m.split_passes = Cardinality(passing)
            /\ m.split_passes >= 0
            /\ m.split_passes <= m.splits
            /\ m.split_pass_rate_pct[1] * m.splits = 100 * m.split_passes * m.split_pass_rate_pct[2]

\* one split passes, and another one with enough trades and win rate but a
\* null profit factor does not
C10_Witness ==
    /\ pc = "done"
    /\ ~IsError(result)
    /\ result.metrics.split_passes >= 1
    /\ \E k \in 1..Len(result.splits) :
          LET sm == result.splits[k].metrics
          IN  /\ sm.trades >= thresholds.min_trades
              /\ RGe(sm.win_rate_pct, thresholds.min_win_rate_pct)
              /\ sm.profit_factor = Null

(***************************************************************************)
(* Properties of the metrics reducer (checked under SpecMetrics).          *)
(***************************************************************************)
RECURSIVE SumOver(_, _)
\* the sum of the P&Ls of the trades ts at the positions in S
SumOver(ts, S) ==
    IF S = {} THEN Zero
    ELSE LET k == CHOOSE x \in S : TRUE
         IN  RAdd(ts[k].pnl, SumOver(ts, S \ {k}))

Winning(ts) == { k \in 1..Len(ts) : RGt(ts[k].pnl, Zero) }
Losing(ts) == { k \in 1..Len(ts) : RLt(ts[k].pnl, Zero) }
Flat(ts) == { k \in 1..Len(ts) : ts[k].pnl = Zero }

\* C11: for every trade list the profit factor is null exactly when the
\* gross loss (the absolute sum of the negative P&Ls) is zero, in
\* particular for a non-empty list without a losing trade; otherwise it is
\* gross profit / gross loss, and the P&Ls [+50, -50] give 1.
C11_ProfitFactor ==
    pc = "metrics_done" =>
        LET pf == sim.metrics.profit_factor
            gross_profit == SumOver(trades, Winning(trades))
            gross_loss == RNeg(SumOver(trades, Losing(trades)))
        IN  /\ IsNull(pf) <=> gross_loss = Zero
            /\ Losing(trades) = {} => pf = Null
            /\ Losing(trades) # {} =>
                  /\ pf[2] > 0
                  /\ RMul(pf, gross_loss) = gross_profit
            /\ (Len(trades) = 2 /\ trades[1].pnl = R(50, 1)
                   /\ trades[2].pnl = R(-50, 1)) => pf = One

\* the reducer has run on a non-empty list of winning and flat trades
C11_Witness ==
    /\ pc = "metrics_done"
    /\ Winning(trades) # {}
    /\ Flat(trades) # {}
    /\ Losing(trades) = {}
    /\ sim.metrics.profit_factor = Null

\* C12: a trade with P&L > 0 counts as a win and a trade with P&L <= 0
\* (exactly 0 included) as a loss, so wins + losses = trades;
\* win_rate_pct = wins / trades * 100, and 0 for an empty list; the P&Ls
\* [+50, -50] give 50.
C12_WinsAndLosses ==
    pc = "metrics_done" =>
        LET m == sim.metrics
        IN  /\ m.trades = Len(trades)
            /\ m.wins = Cardinality(Winning(trades))
            /\ m.losses = Cardinality(Losing(trades) \cup Flat(trades))
            /\ m.wins + m.losses = m.trades
            /\ m.win_rate_pct[2] > 0
            /\ IF m.trades = 0
               THEN m.win_rate_pct = Zero
               ELSE m.win_rate_pct[1] * m.trades
                      = 100 * m.wins * m.win_rate_pct[2]
            /\ (Len(trades) = 2 /\ trades[1].pnl = R(50, 1)
                   /\ trades[2].pnl = R(-50, 1)) => m.win_rate_pct = R(50, 1)

\* the reducer has counted a flat trade as a loss
C12_Witness ==
    /\ pc = "metrics_done"
    /\ Flat(trades) # {}
    /\ Winning(trades) # {}
    /\ sim.metrics.losses > Cardinality(Losing(trades))

(***************************************************************************)
(* Properties of repeated calls of _simulate_range (checked under          *)
(* SpecReplay).                                                            *)
(***************************************************************************)
\* call 2 runs on the bars of call 1
SameBars == run = 2 /\ df = first.df

\* s is a leading part of t
IsPrefix(s, t) ==
    /\ Len(s) <= Len(t)
    /\ \A k \in 1..Len(s) : s[k] = t[k]

Decision(it) ==
    [ bar |-> it.bar, entered |-> it.entered, exited |-> it.exited,
      exit_reason |-> it.exit_reason ]

\* the iterations of call 1 on the bars that call 2 has as well
OnAgreedBars(l) == { k \in 1..Len(l) : l[k].bar < first.agree }

\* C16: the decision taken at bar i (whether to enter, whether to exit and
\* with which reason) is the same for two bar series that agree on bars
\* 0 .. i, given the same signal source (asked with bars 0 .. i only), range
\* and settings: call 2 evaluates the same bars as call 1 and decides the
\* same on every bar up to which its bars agree with those of call 1.
C16_NoLookahead ==
    run = 2 =>
        /\ Len(log) <= Len(first.log)
        /\ \A k \in 1..Len(log) :
              /\ log[k].signal = first.log[k].signal
              /\ Decision(log[k]) = Decision(first.log[k])
        /\ (pc = "loop" /\ i < end /\ i < first.agree) =>
              /\ Len(log) < Len(first.log)
              /\ first.log[Len(log) + 1].bar = i
        /\ (pc = "loop" /\ (i >= end \/ i >= first.agree)) =>
              Len(log) = Cardinality(OnAgreedBars(first.log))

\* call 2 has entered on the last bar it shares with call 1 and was filled
\* one bar later at another close than call 1, and exited later on
C16_Witness ==
    /\ run = 2
    /\ first.agree < Len(df)
    /\ Len(log) >= 1
    /\ log[Len(log)].entered
    /\ log[Len(log)].bar = first.agree - 1
    /\ log[Len(log)].locals.entry_i = first.agree
    /\ log[Len(log)].locals.entry_price
          # first.log[Len(log)].locals.entry_price
    /\ \E k \in 1..Len(first.log) : first.log[k].exited

\* the stop-loss condition of the bar about to be evaluated
StopLossHit ==
    /\ RPos(cfg.stop_loss_pct)
    /\ RLe(Close(i), RMul(entry_price, RSub(One, cfg.stop_loss_pct)))

\* the iterations of l that were given a LONG signal
LongSignals(l) == { k \in 1..Len(l) : l[k].signal = "LONG" }

\* a single LONG signal, answered by an entry, and a stop-loss drop later on
SingleLongThenStop(l) ==
    /\ Cardinality(LongSignals(l)) = 1
    /\ \E k \in LongSignals(l) :
          /\ l[k].entered
          /\ \E j \in (k + 1)..Len(l) : l[j].exit_reason = "stop_loss"

\* the step that leaves the bar loop
LeavesLoop == pc = "loop" /\ pc' = "sim_done"

\* C15: if a position is open at bar i, stop_loss_pct > 0 and
\* close(i) <= entry_price * (1 - stop_loss_pct), the iteration emits one
\* trade with exit_reason stop_loss whose exit price is the close of bar
\* min(i + latency, end - 1) with the sell-side cost; with partial-fill
\* fraction 1 the position is flat afterwards, and a run with a single LONG
\* signal followed by such a drop returns exactly one trade.
C15_StopLossExit ==
    [][ /\ (OpenIteration /\ StopLossHit) =>
              /\ Len(trades') = Len(trades) + 1
              /\ SubSeq(trades', 1, Len(trades)) = trades
              /\ LET t == trades'[Len(trades')]
                     f == Min(i + cfg.latency_bars, end - 1)
                 IN  /\ t.exit_reason = "stop_loss"
                     /\ t.exit_i = f
                     /\ t.exit_price
                          = RMul(R(df[f + 1], 1),
                                 RMax(RSub(One, cfg.cost_pct), Eps6))
                     /\ RLe(t.exit_price, R(df[f + 1], 1))
              /\ cfg.partial_fill = One =>
                    (qty' = Zero /\ entry_price' = Zero /\ entry_i' = NoBar)
        /\ (LeavesLoop /\ cfg.partial_fill = One /\ SingleLongThenStop(log)) =>
              /\ Len(sim'.trades) = 1
              /\ sim'.trades[1].exit_reason = "stop_loss"
      ]_vars

\* a call with one LONG signal has returned its single trade, a stop-loss
\* exit filled with execution cost one bar after the entry fill
C15_Witness ==
    /\ pc = "sim_done"
    /\ cfg.partial_fill = One
    /\ cfg.latency_bars = 1
    /\ RPos(cfg.cost_pct)
    /\ SingleLongThenStop(log)
    /\ Len(sim.trades) = 1
    /\ sim.trades[1].exit_reason = "stop_loss"
    /\ sim.trades[1].exit_i = sim.trades[1].entry_i + 1

(***************************************************************************)
(* The pass thresholds and the walk-forward result (checked under          *)
(* SpecWalkForward).                                                       *)
(***************************************************************************)
\* a walk-forward result without the two fields that count passing splits
WithoutPassCounts(r) ==
    [ splits |-> r.splits,
      trades |-> r.trades,
      equity_curve |-> r.equity_curve,
      metrics |-> [ k \in (DOMAIN r.metrics)
                            \ {"split_passes", "split_pass_rate_pct"}
                      |-> r.metrics[k] ] ]

\* C17 as stated: the pass thresholds do not influence the result of
\* run_walk_forward_backtest: every setting of the thresholds gives the
\* result that was returned, every metrics field included.
C17_Original ==
    (pc = "done" /\ ~IsError(result)) =>
        \A th \in ThresholdValues : WfResult(th) = result

\* C17 (amended): the pass thresholds influence the walk-forward result
\* only through metrics.split_passes and metrics.split_pass_rate_pct:
\* every setting of the thresholds gives the same splits, trades, equity
\* curve and other metrics fields as the result that was returned.
C17_ThresholdsOnlyCountPasses ==
    (pc = "done" /\ ~IsError(result)) =>
        /\ DOMAIN result.metrics = DOMAIN WfResult(thresholds).metrics
        /\ \A th \in ThresholdValues :
              WithoutPassCounts(WfResult(th)) = WithoutPassCounts(result)

\* a result whose count of passing splits is another one under the other
\* setting of the minimum number of trades
C17_Witness ==
    /\ pc = "done"
    /\ ~IsError(result)
    /\ \E th \in ThresholdValues :
          WfResult(th).metrics.split_passes # result.metrics.split_passes

(***************************************************************************)
(* The windows of the walk-forward orchestrator (checked under             *)
(* SpecWalkForward).                                                       *)
(***************************************************************************)
\* the number of bars of a reported split
RowBars(row) == row.end_time - row.start_time + 1

\* C23: the number of windows N is min(configured split count,
\* available_bars div min_bars_per_split) with available_bars = len(bars) -
\* warmup; every window except the last has exactly available_bars div N
\* bars and the last has available_bars div N + available_bars mod N.
C23_WindowSizes ==
    (pc = "done" /\ ~IsError(result)) =>
        LET rows == result.splits
            A == Len(df) - cfg.warmup
            N == Min(cfg.wf_splits, A \div cfg.wf_min_bars)
        IN  /\ Len(rows) = N
            /\ \A k \in 1..N : rows[k].split = k
            /\ \A k \in 1..(N - 1) : RowBars(rows[k]) = A \div N
            /\ RowBars(rows[N]) = (A \div N) + (A % N)

\* the configured split count was clamped down and the last window took a
\* remainder
C23_Witness ==
    /\ pc = "done"
    /\ ~IsError(result)
    /\ Len(result.splits) < cfg.wf_splits
    /\ (Len(df) - cfg.warmup) % Len(result.splits) > 0
    /\ RowBars(result.splits[Len(result.splits)]) > RowBars(result.splits[1])

NoValidSplits == "No valid walk-forward splits were generated."

\* C24: no computed window is ever skipped: every window has at least
\* min_bars_per_split bars, the number of reported splits always equals N,
\* and the error result "No valid walk-forward splits were generated." is
\* never returned.
C24_NoWindowSkipped ==
    [][ /\ (pc = "wf_loop" /\ idx < splits) =>
              /\ pc' = "sim_begin"
              /\ end_index' - start_index' >= cfg.wf_min_bars
        /\ (pc = "wf_loop" /\ idx >= splits) =>
              /\ Len(split_rows) = splits
              /\ ~IsError(result')
              /\ Len(result'.splits) = Min(cfg.wf_splits, max_splits)
        /\ pc' = "done" =>
              (IsError(result') => result'.error # NoValidSplits)
      ]_vars

\* every window of a successful run has exactly the minimum number of bars
C24_Witness ==
    /\ pc = "done"
    /\ ~IsError(result)
    /\ cfg.wf_min_bars = 2
    /\ \A k \in 1..Len(result.splits) :
          RowBars(result.splits[k]) = cfg.wf_min_bars

(***************************************************************************)
(* The splits run as concurrent tasks (checked under SpecParallel).        *)
(***************************************************************************)
\* C25: running the per-split simulations in any order, or interleaved step
\* by step while they share the one strategy object, and aggregating in
\* split order, yields exactly the same splits, trades, equity curve and
\* metrics as the sequential run.
C25_ParallelSplits ==
    (run = 2 /\ pc = "done") => result = first.result

(***************************************************************************)
(* The aggregates of the walk-forward orchestrator                         *)
(***************************************************************************)
RECURSIVE RowTotal(_, _)
\* the sum of a metric over split rows
RowTotal(rows, f) ==
    IF rows = <<>> THEN 0
    ELSE rows[1].metrics[f] + RowTotal(Tail(rows), f)

\* the orchestrator takes in the result of a split
SplitCollected == pc = "sim_done" /\ pc' = "wf_loop"

\* C27: in a walk-forward result the trades, wins and losses of the
\* aggregate metrics are the sums of those of the reported splits, and the
\* combined equity curve grows by exactly the equity curve of each split
\* taken in, in split order, so that its length is the sum of their lengths.
C27_AggregatesAreSums ==
    /\ [](pc = "done" /\ ~IsError(result) =>
            /\ result.metrics.trades = RowTotal(result.splits, "trades")
            /\ result.metrics.wins = RowTotal(result.splits, "wins")
            /\ result.metrics.losses = RowTotal(result.splits, "losses")
            /\ result.metrics.trades = Len(all_trades)
            /\ result.equity_curve = combined_equity_curve)
    /\ [][ SplitCollected =>
             /\ combined_equity_curve' =
                    combined_equity_curve \o sim.equity_curve
             /\ Len(combined_equity_curve') =
                    Len(combined_equity_curve) + Len(sim.equity_curve)
             /\ all_trades' = all_trades \o sim.trades ]_vars

\* C27 witness: a result of two splits that both traded, with a winning and
\* a losing trade among them
C27_Witness ==
    /\ pc = "done"
    /\ ~IsError(result)
    /\ Len(result.splits) = 2
    /\ \A k \in 1..2 : result.splits[k].metrics.trades >= 1
    /\ result.metrics.wins >= 1
    /\ result.metrics.losses >= 1
    /\ Len(result.equity_curve) >= 4

(***************************************************************************)
(* The gating caller: run_bot and _backtest_gate of main.py.  run_bot      *)
(* validates every symbol once at start-up and keeps the verdicts in the   *)
(* preflight table; each cycle of its loop then picks the selected         *)
(* symbol's signal and hands it to the executor unless something blocks    *)
(* it.  What the outside world answers in a cycle (market hours, data, the *)
(* strategy's signal, the account snapshot, the risk manager, the          *)
(* executor's outcome, a raised exception) is an input of the cycle.       *)
(***************************************************************************)
MaxCycles == 2

Symbols == {"AAA", "BBB"}

\* float("inf")
Infinity == <<1, 0>>

\* the profit factor _backtest_gate compares with the threshold
GateProfitFactor(metrics) ==
    IF IsNull(metrics.profit_factor)
    THEN IF metrics.wins > 0 /\ metrics.losses = 0 THEN Infinity ELSE Zero
    ELSE metrics.profit_factor

\* profit_factor < threshold, false for float("inf")
BelowProfitFactor(pf, threshold) == pf # Infinity /\ RLt(pf, threshold)

\* _backtest_gate: the verdict and its reason
_backtest_gate(res, settings) ==
    IF IsError(res) THEN [ passed |-> FALSE, reason |-> "unavailable" ]
    ELSE
    LET metrics == res.metrics
        walk_forward == /\ "validation_mode" \in DOMAIN metrics
                        /\ metrics.validation_mode = "walk_forward"
        th == IF walk_forward THEN settings.walk_forward_min
              ELSE settings.backtest_min
        profit_factor == GateProfitFactor(metrics)
    IN  IF metrics.trades < th.min_trades
        THEN [ passed |-> FALSE, reason |-> "trades" ]
        ELSE IF RLt(metrics.win_rate_pct, th.min_win_rate_pct)
        THEN [ passed |-> FALSE, reason |-> "win_rate" ]
        ELSE IF BelowProfitFactor(profit_factor, th.min_profit_factor)
        THEN [ passed |-> FALSE, reason |-> "profit_factor" ]
        ELSE IF walk_forward /\ RLt(metrics.split_pass_rate_pct, R(50, 1))
        THEN [ passed |-> FALSE, reason |-> "split_pass_rate" ]
        ELSE [ passed |-> TRUE, reason |-> "passed" ]

\* the metrics of the results handed to the gate, computed from trade lists
PreflightMetrics(lists) ==
    { _compute_metrics(R(64, 1), R(64, 1), ts, <<>>) : ts \in lists }

\* what run_backtest or run_walk_forward_backtest returned for a symbol: an
\* error, or metrics; a walk-forward result with a winning and a losing
\* trade comes with no split and with every split passing
PreflightResults(walk_forward) ==
    { [ error |-> "Not enough data" ] }
    \cup
    ( IF walk_forward
      THEN { [ metrics |-> [ validation_mode |-> "walk_forward",
                             split_pass_rate_pct |-> rate,
                             trades |-> m.trades, wins |-> m.wins,
                             losses |-> m.losses,
                             win_rate_pct |-> m.win_rate_pct,
                             profit_factor |-> m.profit_factor ] ] :
               m \in PreflightMetrics(
                        {<<TradeWithExit(150), TradeWithExit(50)>>}),
               rate \in {Zero, Hundred} }
      ELSE { [ metrics |-> m ] :
               m \in PreflightMetrics({ <<>>, <<TradeWithExit(150)>>,
                                        <<TradeWithExit(50)>> }) } )

\* the orchestrator's result handed to the gate, as run_bot does for each
\* symbol: the gate reads the same WALK_FORWARD_MIN_* settings the
\* orchestrator scored the splits with
GateResult ==
    /\ pc = "done"
    /\ caller = "walk_forward"
    /\ bot' = _backtest_gate(result, [ backtest_min |-> thresholds,
                                       walk_forward_min |-> thresholds ])
    /\ pc' = "gated"
    /\ UNCHANGED <<cfg, df, caller, simvars, wfvars, result, replayvars,
                   parvars>>

NextPreflight ==
    \/ NextWalkForward
    \/ GateResult

SpecPreflight == InitWalkForward /\ [][NextPreflight]_vars

\* the settings run_bot reads and whether build_executor gave an executor
BotConfigs ==
    [ require_backtest_pass : BOOLEAN,
      use_walk_forward_precheck : BOOLEAN,
      executor : BOOLEAN,
      allow_position_scaling : BOOLEAN,
      backtest_min : { th \in ThresholdValues : th.min_trades = 1 },
      walk_forward_min : { th \in ThresholdValues : th.min_trades = 1 } ]

\* what a cycle did with a signal: the signal_key it computed (<<>> when it
\* computed none), whether it sent the signal's alert, what
\* risk_manager.can_trade answered ("unasked" when it was not asked) and
\* whether it called executor.execute_signal
NothingSeen ==
    [ signal_key |-> <<>>, alerted |-> FALSE, can_trade |-> "unasked",
      called |-> FALSE ]

\* run_bot before its loop: nothing validated yet, the runtime state as
\* RuntimeStateStore.load gives it for a first start; calls is the history
\* of the symbols execute_signal was called for
NewBot ==
    [ preflight |-> EmptyDict,
      selected_symbol |-> "AAA",
      last_signal_key |-> <<>>,
      cycles |-> 0,
      signals_detected |-> 0,
      executions_attempted |-> 0,
      errors |-> 0,
      blocked_reason |-> "none",
      positions |-> {},
      calls |-> {},
      seen |-> NothingSeen ]

\* the preflight loop: one validation per symbol, its verdict kept under
\* the symbol
Preflight ==
    /\ pc = "preflight"
    /\ IF cfg.require_backtest_pass
       THEN \E res \in [Symbols -> PreflightResults(cfg.use_walk_forward_precheck)] :
              bot' = [bot EXCEPT !.preflight =
                        [ s \in Symbols |->
                            LET gate == _backtest_gate(res[s], cfg)
                            IN  [ passed |-> gate.passed,
                                  reason |-> gate.reason,
                                  metrics |-> IF IsError(res[s]) THEN EmptyDict
                                              ELSE res[s].metrics,
                                  error |-> IsError(res[s]) ] ]]
       ELSE bot' = bot
    /\ pc' = "cycle"
    /\ UNCHANGED <<cfg, df, caller, simvars, wfvars, result, replayvars,
                   parvars>>

\* the key of a signal: symbol, timestamp, type and reason
SignalKey(symbol, sig) == <<symbol, sig.timestamp, sig.type, sig.reason>>

\* the signals the selected symbol's strategy may give in a cycle; the last
\* closed candle stays the same over the few cycles of a run
StrategySignals ==
    [ type : {"LONG", "SHORT"}, timestamp : {1}, reason : {"signal"} ]

\* the signal _build_protective_exit_signal gives in cycle n
ProtectiveSignal(n) ==
    [ type |-> "SHORT", timestamp |-> 10 + n, reason |-> "stop_loss" ]

\* the runtime state at the top of a cycle: the cycle is counted and the
\* selection follows the stored one when it names a known symbol
CycleStart(external_selected) ==
    [bot EXCEPT !.cycles = @ + 1,
                !.selected_symbol = IF external_selected \in Symbols
                                    THEN external_selected ELSE @,
                !.seen = NothingSeen]

\* _sync_position_meta for the selected symbol
Synced(b, asset) ==
    [b EXCEPT !.positions = IF asset THEN @ \cup {b.selected_symbol}
                            ELSE @ \ {b.selected_symbol}]

GateBlocks_errors_only(b) ==
    /\ cfg.require_backtest_pass
    /\ b.preflight[b.selected_symbol].error

\* the selected symbol has a preflight entry that did not pass
GateBlocks(b) ==
    /\ cfg.require_backtest_pass
    /\ ~b.preflight[b.selected_symbol].passed

Blocked_key_forgotten(b, key, why) ==
    [b EXCEPT !.blocked_reason = why]

\* a cycle that holds a new signal back: the reason is written to the risk
\* state and the signal's key becomes last_signal_key
Blocked(b, key, why) ==
    [b EXCEPT !.blocked_reason = why, !.last_signal_key = key]

MayExecute_unasked(can_trade, sig) == TRUE

\* the condition of the executing branch: the risk manager allows a trade,
\* or the signal closes the position
MayExecute(can_trade, sig) ==
    LET close_position == sig.type = "SHORT"
    IN  can_trade \/ close_position

\* the execution part of a cycle for a new signal of the selected symbol.
\* When execute_signal answers executed, the cycle counts the execution and
\* calls risk_manager.record_trade with the keyword current_equity, which
\* record_trade does not take (manager.py:72): the TypeError ends the cycle
\* in the handler of line 770, before the positions and last_signal_key are
\* written.  When it answers not executed, or raises (line 689), the cycle
\* goes on to record the key.
Execution(b, sig, key, asset) ==
    LET sym == b.selected_symbol
        alerted == [b EXCEPT !.seen.alerted = TRUE]
        recorded == [alerted EXCEPT !.last_signal_key = key]
    IN  IF ~cfg.executor THEN bot' = recorded
        ELSE IF GateBlocks(b)
        THEN bot' = Blocked(alerted, key, b.preflight[sym].reason)
        ELSE IF /\ ~cfg.allow_position_scaling
                /\ \/ sig.type = "LONG" /\ asset
                   \/ sig.type = "SHORT" /\ ~asset
        THEN bot' = Blocked(alerted, key, "position")
        ELSE IF MayExecute(b.seen.can_trade = "True", sig)
        THEN \E executed \in BOOLEAN :
               IF executed
               THEN bot' = [alerted EXCEPT
                              !.blocked_reason = "none",
                              !.calls = @ \cup {sym},
                              !.seen.called = TRUE,
                              !.executions_attempted = @ + 1,
                              !.errors = @ + 1]
               ELSE bot' = [recorded EXCEPT
                              !.blocked_reason = "none",
                              !.calls = @ \cup {sym},
                              !.seen.called = TRUE]
        ELSE bot' = Blocked(alerted, key, "risk")

\* a cycle finds a signal with a key other than last_signal_key: the signal
\* is counted and the risk manager asked; then either the alert raises or
\* the cycle goes on to the execution part
NewSignal(b, sig, key, asset) ==
    \E can_trade \in BOOLEAN :
        LET b2 == [b EXCEPT !.signals_detected = @ + 1,
                            !.seen.can_trade = IF can_trade THEN "True"
                                               ELSE "False"]
        IN  \/ bot' = [b2 EXCEPT !.errors = @ + 1]
            \/ Execution(b2, sig, key, asset)

\* one pass of the loop of run_bot
Cycle ==
    /\ pc = "cycle"
    /\ bot.cycles < MaxCycles
    /\ \E external_selected \in Symbols \cup {"none"} :
         LET b0 == CycleStart(external_selected) IN
         \* an exception before the signal is looked at
         \/ bot' = [b0 EXCEPT !.errors = @ + 1]
         \* the market is closed
         \/ bot' = b0
         \/ \E asset \in BOOLEAN, protective \in BOOLEAN :
              LET b1 == Synced(b0, asset) IN
              IF asset /\ protective
              THEN LET sig == ProtectiveSignal(b0.cycles)
                       key == SignalKey(b1.selected_symbol, sig)
                       b2 == [b1 EXCEPT !.seen.signal_key = key]
                   IN  IF key = b1.last_signal_key THEN bot' = b2
                       ELSE NewSignal(b2, sig, key, asset)
              ELSE
              \* no signal, or a strategy signal that is stale or scored
              \* too low
              \/ bot' = b1
              \/ bot' = [b1 EXCEPT !.blocked_reason = "stale"]
              \/ \E sig \in StrategySignals :
                   LET key == SignalKey(b1.selected_symbol, sig)
                       b2 == [b1 EXCEPT !.seen.signal_key = key]
                   IN  IF key = b1.last_signal_key THEN bot' = b2
                       ELSE NewSignal(b2, sig, key, asset)
    /\ UNCHANGED <<cfg, df, caller, pc, simvars, wfvars, result, replayvars,
                   parvars>>

InitBot ==
    /\ cfg \in BotConfigs
    /\ df = <<>>
    /\ caller = "bot"
    /\ pc = "preflight"
    /\ start_index = 0
    /\ end_index = 0
    /\ SimIdle
    /\ WfIdle
    /\ ReplayIdle
    /\ ParIdle
    /\ bot = NewBot

NextBot ==
    \/ Preflight
    \/ Cycle

SpecBot == InitBot /\ [][NextBot]_vars

(***************************************************************************)
(* Properties of the gating caller (SpecBot)                               *)
(***************************************************************************)

\* the preflight entries of results whose profit factor is null
NullProfitFactor(s) ==
    /\ s \in DOMAIN bot.preflight
    /\ ~bot.preflight[s].error
    /\ IsNull(bot.preflight[s].metrics.profit_factor)

\* C26: for a result whose metrics.profit_factor is null, the profit factor
\* that _backtest_gate compares with the minimum is not infinity.  The gate
\* does take float("inf") when the result has wins and no losses
\* (main.py:393-396), so the check of the minimum passes whatever the
\* minimum is.
C26_NullProfitFactorNotInfinite ==
    \A s \in Symbols :
        NullProfitFactor(s) =>
            GateProfitFactor(bot.preflight[s].metrics) # Infinity

\* the selected symbol of a state is held back by the gate
Gated(b) ==
    /\ cfg.require_backtest_pass
    /\ cfg.executor
    /\ b.selected_symbol \in DOMAIN b.preflight
    /\ ~b.preflight[b.selected_symbol].passed

\* a cycle that found a new signal for the selected symbol and went on to
\* the execution part
NewSignalCycle ==
    /\ bot # EmptyDict
    /\ bot'.signals_detected = bot.signals_detected + 1
    /\ bot'.errors = bot.errors

\* C28: with REQUIRE_BACKTEST_PASS and an executor, execute_signal is never
\* called for a symbol whose preflight entry did not pass (an error result
\* or metrics below a threshold); a cycle whose new signal, strategy or
\* protective, is held back by the gate makes no call, records the gate's
\* reason and records the signal's key as last_signal_key.
C28_GateBlocksExecution ==
    /\ [](cfg.require_backtest_pass /\ cfg.executor =>
            \A s \in bot.calls : bot.preflight[s].passed)
    /\ [][ NewSignalCycle /\ Gated(bot') =>
             /\ bot'.calls = bot.calls
             /\ bot'.executions_attempted = bot.executions_attempted
             /\ bot'.blocked_reason =
                    bot'.preflight[bot'.selected_symbol].reason
             /\ bot'.last_signal_key # bot.last_signal_key
             /\ bot'.last_signal_key[1] = bot'.selected_symbol ]_vars

\* C28 witness: a protective exit of a symbol that failed the gate was held
\* back and its key recorded, after a signal of the other symbol, which
\* passed, was handed to the executor
C28_Witness ==
    /\ Gated(bot)
    /\ bot.blocked_reason \in {"unavailable", "trades", "win_rate"}
    /\ bot.blocked_reason = bot.preflight[bot.selected_symbol].reason
    /\ bot.last_signal_key # <<>>
    /\ bot.last_signal_key[1] = bot.selected_symbol
    /\ bot.last_signal_key[4] = "stop_loss"
    /\ bot.calls = Symbols \ {bot.selected_symbol}

\* a pass of the loop that computed a signal_key
KeyedCycle ==
    /\ bot # EmptyDict
    /\ bot'.cycles = bot.cycles + 1
    /\ bot'.seen.signal_key # <<>>

\* C35: a cycle whose signal key equals last_signal_key sends no alert,
\* calls no execute_signal and leaves signals_detected (and the key) as
\* they were; a cycle whose key differs counts the signal, and when it did
\* not raise it ends with last_signal_key equal to its key, whether the
\* signal went to the executor or was held back by the gate, the position
\* check or risk control.
C35_SignalDeduplication ==
    [][ KeyedCycle =>
          IF bot'.seen.signal_key = bot.last_signal_key
          THEN /\ ~bot'.seen.alerted
               /\ ~bot'.seen.called
               /\ bot'.calls = bot.calls
               /\ bot'.signals_detected = bot.signals_detected
               /\ bot'.executions_attempted = bot.executions_attempted
               /\ bot'.last_signal_key = bot.last_signal_key
          ELSE /\ bot'.signals_detected = bot.signals_detected + 1
               /\ bot'.errors = bot.errors =>
                      bot'.last_signal_key = bot'.seen.signal_key ]_vars

\* C35 witness: the second cycle found the signal of the first again, whose
\* key the first had recorded when risk control held the signal back, and
\* skipped it
C35_Witness ==
    /\ bot # EmptyDict
    /\ bot.cycles = 2
    /\ bot.errors = 0
    /\ bot.seen.signal_key # <<>>
    /\ bot.seen.signal_key = bot.last_signal_key
    /\ ~bot.seen.alerted
    /\ bot.signals_detected = 1
    /\ bot.blocked_reason = "risk"

\* a cycle that took a new signal as far as the position check of lines
\* 654-660: the alert was sent, there is an executor and the gate let the
\* selected symbol through
ReachedPositionCheck ==
    /\ KeyedCycle
    /\ bot'.seen.alerted
    /\ cfg.executor
    /\ ~GateBlocks(bot')

\* C36: a LONG signal is handed to execute_signal only in a cycle whose
\* can_trade answered True, and is held back with a risk reason when the
\* answer was False; a SHORT signal, strategy or protective, that the
\* position check lets through is handed to execute_signal whatever
\* can_trade answered.
C36_RiskGatesEntriesNotExits ==
    [][ KeyedCycle =>
          LET type == bot'.seen.signal_key[3]
              position_block == bot'.blocked_reason = "position"
          IN  /\ bot'.seen.called /\ type = "LONG" =>
                     bot'.seen.can_trade = "True"
              /\ ReachedPositionCheck /\ ~position_block /\ type = "LONG"
                   /\ bot'.seen.can_trade = "False" =>
                     /\ ~bot'.seen.called
                     /\ bot'.calls = bot.calls
                     /\ bot'.blocked_reason = "risk"
              /\ ReachedPositionCheck /\ ~position_block /\ type = "SHORT" =>
                     /\ bot'.seen.called
                     /\ bot'.selected_symbol \in bot'.calls ]_vars

\* C36 witness: a protective exit went to the executor in a cycle whose
\* can_trade answered False, in the second cycle, the signal of the first
\* having reached no executor
C36_Witness ==
    /\ bot # EmptyDict
    /\ bot.cycles = 2
    /\ bot.signals_detected = 2
    /\ bot.seen.called
    /\ bot.seen.can_trade = "False"
    /\ bot.seen.signal_key[3] = "SHORT"
    /\ bot.seen.signal_key[4] = "stop_loss"
    /\ bot.calls = {bot.selected_symbol}
    /\ bot.executions_attempted = 0

(***************************************************************************)
(* The execution cost model near the price floor.  The closes of the       *)
(* other specifications are whole numbers, far above the floor of 1e-12    *)
(* that _execution_price puts under the raw price.  Here prices and money  *)
(* are counted in units of 1e-13, so that the floor is 10 units and closes *)
(* on both sides of it can be written down.  A quote is the buy and the    *)
(* sell price for one close, and the P&L of an entry at that close         *)
(* (engine.py:166-178) force-closed at the same close (226-235).           *)
(***************************************************************************)
MaxTinyPrice == 24

\* 1e-12 in units of 1e-13
Eps12 == R(10, 1)

\* _execution_price with the floor under the raw price, in units of 1e-13
_execution_price_floored(raw_price, side) ==
    _execution_price(RMax(raw_price, Eps12), side)

\* the trade of a position entered with the allocation at hand and closed
\* by the end-of-range close at the same bar
SameBarTrade(raw_price, allocation) ==
    LET fill_price == _execution_price_floored(raw_price, "buy")
        entry_fee == RMul(allocation, cfg.fee)
        net_allocation == RMax(RSub(allocation, entry_fee), Zero)
        q == RDiv(net_allocation, fill_price)
        final_price == _execution_price_floored(raw_price, "sell")
        exit_fee == RMul(RMul(q, final_price), cfg.fee)
    IN  Trade(0, 0, fill_price, final_price, q, exit_fee, "end_of_test")

\* spread and slippage from none to the whole price, with and without
\* commission
PriceConfigs ==
    [ cost_pct : {Zero, R(1, 4), One}, fee : {Zero, R(1, 4)} ]

Quote ==
    /\ pc = "price"
    /\ result' = [ buy |-> _execution_price_floored(R(df[1], 1), "buy"),
                   sell |-> _execution_price_floored(R(df[1], 1), "sell"),
                   trade |-> SameBarTrade(R(df[1], 1), One) ]
    /\ pc' = "done"
    /\ UNCHANGED <<cfg, df, caller, simvars, wfvars, idlevars>>

InitPrice ==
    /\ cfg \in PriceConfigs
    /\ df \in { <<raw>> : raw \in 1..MaxTinyPrice }
    /\ caller = "price"
    /\ pc = "price"
    /\ start_index = 0
    /\ end_index = 0
    /\ SimIdle
    /\ WfIdle
    /\ ReplayIdle
    /\ ParIdle
    /\ BotIdle

NextPrice == Quote

SpecPrice == InitPrice /\ [][NextPrice]_vars

\* the prices the cost model promises for the close at hand
ModelPrices ==
    LET raw == R(df[1], 1)
        cost_pct == cfg.cost_pct
    IN  /\ result.buy = RMul(raw, RAdd(One, cost_pct))
        /\ result.sell = RMul(raw, RMax(RSub(One, cost_pct), Eps6))
        /\ RPos(result.sell)
        /\ RLe(result.sell, raw)
        /\ RLe(raw, result.buy)

\* C29 as stated: for every raw close > 0 the buy price is
\* raw * (1 + cost_pct), the sell price raw * max(1 - cost_pct, 1e-6), so
\* 0 < sell <= raw <= buy, and a same-bar round trip has no positive P&L.
C29_Original ==
    pc = "done" =>
        /\ ModelPrices
        /\ RLe(result.trade.pnl, Zero)

\* C29 (amended): the same for every raw close >= 1e-12; below it the raw
\* price is first raised to 1e-12.  The same-bar round trip has no positive
\* P&L for every raw close.
C29_ExecutionCostModel ==
    pc = "done" =>
        /\ RGe(R(df[1], 1), Eps12) => ModelPrices
        /\ RLe(result.trade.pnl, Zero)

\* C29 witness: a quote for a close above the floor with a cost that takes
\* the sell factor to its own floor of 1e-6, and a round trip that loses
C29_Witness ==
    /\ pc = "done"
    /\ caller = "price"
    /\ RGt(R(df[1], 1), Eps12)
    /\ cfg.cost_pct = One
    /\ result.sell = RMul(R(df[1], 1), Eps6)
    /\ RLt(result.trade.pnl, Zero)

(***************************************************************************)
(* Properties of a walk-forward result handed to the gate (SpecPreflight)  *)
(***************************************************************************)

\* no split of the result has a trade with a negative P&L: the gross loss
\* of every split is zero
NoLosingSplit ==
    /\ ~IsError(result)
    /\ \A k \in 1..Len(result.splits) :
          IsNull(result.splits[k].metrics.profit_factor)

\* the checks of the gate that come before the split pass-rate are met
EarlierChecksMet ==
    /\ result.metrics.trades >= thresholds.min_trades
    /\ RGe(result.metrics.win_rate_pct, thresholds.min_win_rate_pct)
    /\ ~BelowProfitFactor(GateProfitFactor(result.metrics),
                          thresholds.min_profit_factor)

RECURSIVE EntryFees(_)
\* the entry fees behind a list of trades, for a commission below 1: an
\* entry buys (allocation - allocation * commission) / entry_price, so the
\* closed quantity q of a trade stands for q * entry_price / (1 - commission)
\* of allocation and that times the commission of entry fee
EntryFees(ts) ==
    IF ts = <<>> THEN Zero
    ELSE RAdd(RDiv(RMul(RMul(ts[1].qty, ts[1].entry_price), cfg.fee),
                   RSub(One, cfg.fee)),
              EntryFees(Tail(ts)))

RECURSIVE SplitNetProfits(_)
\* the sum of the net_profit of split rows
SplitNetProfits(rows) ==
    IF rows = <<>> THEN Zero
    ELSE RAdd(rows[1].metrics.net_profit, SplitNetProfits(Tail(rows)))

\* C32: for every call of _simulate_range, final_equity - initial_capital
\* is the sum of the trades' P&L minus the entry fees of all entries; and
\* the net_profit of the walk-forward aggregate exceeds the sum of the
\* splits' net_profit by those entry fees, strictly so with a commission
\* > 0 and at least one entry.
C32_AccountingIdentity ==
    /\ pc = "sim_done" =>
          RSub(sim.metrics.final_equity, sim.metrics.initial_capital) =
             RSub(SumIf(Pnls(sim.trades), 0), EntryFees(sim.trades))
    /\ (pc = "done" /\ ~IsError(result)) =>
          /\ RSub(result.metrics.net_profit, SplitNetProfits(result.splits)) =
                EntryFees(all_trades)
          /\ (RPos(cfg.fee) /\ all_trades # <<>>) =>
                RGt(result.metrics.net_profit,
                    SplitNetProfits(result.splits))

\* C32 witness: a walk-forward result with a commission, trades in both
\* splits and a winning trade among them
C32_Witness ==
    /\ pc = "done"
    /\ ~IsError(result)
    /\ RPos(cfg.fee)
    /\ Len(result.splits) = 2
    /\ \A k \in 1..2 : result.splits[k].metrics.trades >= 1
    /\ result.metrics.wins >= 1
    /\ RGt(result.metrics.net_profit, SplitNetProfits(result.splits))

(***************************************************************************)
(* The trades kept in a result (SpecWalkForward, SpecBacktest)             *)
(***************************************************************************)

\* all trades of the simulation behind the result at hand
SimulatedTrades == IF caller = "walk_forward" THEN all_trades ELSE sim.trades

\* C33: the trades list of a result holds the last TradesKept trades of the
\* simulation in their order, while metrics.trades, wins, losses and
\* profit factor are computed over all trades; so the length of the list is
\* min(metrics.trades, TradesKept).
C33_ResultTruncation ==
    (pc = "done" /\ ~IsError(result)) =>
        LET full == SimulatedTrades
            kept == result.trades
            dropped == Len(full) - Len(kept)
        IN  /\ Len(kept) = Min(Len(full), TradesKept)
            /\ \A k \in 1..Len(kept) : kept[k] = full[dropped + k]
            /\ result.metrics.trades = Len(full)
            /\ result.metrics.wins = Wins(Pnls(full))
            /\ result.metrics.losses = Losses(Pnls(full))
            /\ result.metrics.profit_factor = _profit_factor(Pnls(full))
            /\ Len(kept) = Min(result.metrics.trades, TradesKept)

\* C33 witness: a result of more trades than are kept, the dropped first
\* trade differing from the first kept one
C33_Witness ==
    /\ pc = "done"
    /\ ~IsError(result)
    /\ result.metrics.trades > TradesKept
    /\ Len(result.trades) = TradesKept
    /\ SimulatedTrades[1] # result.trades[1]

(***************************************************************************)
(* The risk manager (src/risk/manager.py).  Time is counted in minutes and *)
(* a UTC day has MinutesPerDay of them.  In SpecRisk the variable bot      *)
(* holds the "risk" entry of the runtime state the manager works on, the   *)
(* clock, the last call with its argument and answer, and the minute of    *)
(* the last recorded loss that no later trade with a P&L >= 0 followed.    *)
(***************************************************************************)
MaxClock == 5

\* the 1440 minutes of a UTC day, scaled
MinutesPerDay == 3

\* datetime.now(timezone.utc).strftime("%Y-%m-%d"): the day of minute now
_today_key(now) == now \div MinutesPerDay

\* None for cooldown_until_utc
NoTime == <<>>

\* datetime.isoformat gives the text of an instant, datetime.fromisoformat
\* reads the instant back from the text
isoformat(t) == <<"utc", t \div MinutesPerDay, t % MinutesPerDay>>
fromisoformat(text) == text[2] * MinutesPerDay + text[3]

\* runtime_state.get("risk", {}) of a runtime state without the entry:
\* get("date") is None, which is no day
NoRisk == [ date |-> -1 ]

\* the settings the manager reads
RiskSettings ==
    [ cooldown_after_loss_minutes : {0, 2},
      max_trades_per_day : {2, 4},
      max_daily_loss_pct : {R(5, 1)},
      max_consecutive_losses : {1, 3},
      paper_initial_balance : {Hundred} ]

\* the equity of the account snapshot (None without an executor) and the
\* realized P&L of an executed order (None for an entry)
AccountEquities == {Null, Hundred, R(90, 1)}
RealizedPnls == {Null, R(-1, 1), Zero, One}

\* the risk entry for today: the stored one, or a fresh one when the stored
\* one is of another day
_ensure_risk_state(risk, now, equity) ==
    LET today == _today_key(now)
    IN  IF risk.date # today
        THEN [ date |-> today,
               day_start_equity |-> equity,
               trades_today |-> 0,
               realized_pnl_today |-> Zero,
               consecutive_losses |-> 0,
               cooldown_until_utc |-> NoTime,
               blocked_reason |-> "none" ]
        ELSE risk

CooldownActive_short(cooldown_until, now) ==
    /\ cooldown_until # NoTime
    /\ now + 1 < fromisoformat(cooldown_until)

\* the cooldown test of can_trade
CooldownActive(cooldown_until, now) ==
    /\ cooldown_until # NoTime
    /\ now < fromisoformat(cooldown_until)

\* RiskManager.can_trade: the answer, its reason and the risk entry it
\* leaves in the runtime state
can_trade(stored, settings, now, equity) ==
    LET effective_equity == IF IsNull(equity)
                            THEN settings.paper_initial_balance ELSE equity
        risk == _ensure_risk_state(stored, now, effective_equity)
        day_start == risk.day_start_equity
        drawdown_pct == RMul(RDiv(RSub(equity, day_start), day_start),
                             Hundred)
        reason ==
            IF CooldownActive(risk.cooldown_until_utc, now) THEN "cooldown"
            ELSE IF risk.trades_today >= settings.max_trades_per_day
            THEN "max_trades"
            ELSE IF /\ RPos(day_start)
                    /\ ~IsNull(equity)
                    /\ RLe(drawdown_pct, RNeg(settings.max_daily_loss_pct))
            THEN "daily_loss"
            ELSE IF risk.consecutive_losses >= settings.max_consecutive_losses
            THEN "max_losses"
            ELSE "none"
    IN  [ allowed |-> reason = "none", reason |-> reason, risk |-> risk ]

\* RiskManager.record_trade: the risk entry it leaves in the runtime state
record_trade(stored, settings, now, realized_pnl) ==
    LET risk == _ensure_risk_state(stored, now,
                                   settings.paper_initial_balance)
        counted == [risk EXCEPT !.trades_today = @ + 1]
        summed == [counted EXCEPT
                     !.realized_pnl_today = RAdd(@, realized_pnl)]
    IN  IF IsNull(realized_pnl) THEN counted
        ELSE IF RLt(realized_pnl, Zero)
        THEN [summed EXCEPT
                !.consecutive_losses = @ + 1,
                !.cooldown_until_utc =
                    IF settings.cooldown_after_loss_minutes > 0
                    THEN isoformat(now + settings.cooldown_after_loss_minutes)
                    ELSE @]
        ELSE [summed EXCEPT !.consecutive_losses = 0,
                            !.cooldown_until_utc = NoTime]

\* a manager on a runtime state without a risk entry, at minute 0
NewRisk ==
    [ risk |-> NoRisk, now |-> 0, op |-> "none", arg |-> Null,
      allowed |-> TRUE, reason |-> "none", recorded |-> 0, loss_at |-> -1 ]

\* a minute passes
RiskClock ==
    /\ pc = "risk"
    /\ bot.now < MaxClock
    /\ bot' = [bot EXCEPT !.now = @ + 1, !.op = "clock"]
    /\ UNCHANGED <<cfg, df, caller, pc, simvars, wfvars, result, replayvars,
                   parvars>>

\* a caller asks can_trade
RiskCanTrade ==
    /\ pc = "risk"
    /\ \E equity \in AccountEquities :
         LET answer == can_trade(bot.risk, cfg, bot.now, equity)
         IN  bot' = [bot EXCEPT !.risk = answer.risk,
                                !.op = "can_trade",
                                !.arg = equity,
                                !.allowed = answer.allowed,
                                !.reason = answer.reason]
    /\ UNCHANGED <<cfg, df, caller, pc, simvars, wfvars, result, replayvars,
                   parvars>>

\* a caller records a trade
RiskRecordTrade ==
    /\ pc = "risk"
    /\ bot.recorded < MaxTrades
    /\ \E realized_pnl \in RealizedPnls :
         bot' = [bot EXCEPT
                   !.risk = record_trade(bot.risk, cfg, bot.now, realized_pnl),
                   !.op = "record_trade",
                   !.arg = realized_pnl,
                   !.recorded = @ + 1,
                   !.loss_at = IF IsNull(realized_pnl) THEN @
                               ELSE IF RLt(realized_pnl, Zero) THEN bot.now
                               ELSE -1]
    /\ UNCHANGED <<cfg, df, caller, pc, simvars, wfvars, result, replayvars,
                   parvars>>

InitRisk ==
    /\ cfg \in RiskSettings
    /\ df = <<>>
    /\ caller = "risk"
    /\ pc = "risk"
    /\ start_index = 0
    /\ end_index = 0
    /\ SimIdle
    /\ WfIdle
    /\ ReplayIdle
    /\ ParIdle
    /\ bot = NewRisk

NextRisk ==
    \/ RiskClock
    \/ RiskCanTrade
    \/ RiskRecordTrade

SpecRisk == InitRisk /\ [][NextRisk]_vars

(***************************************************************************)
(* Properties of the risk manager (SpecRisk)                               *)
(***************************************************************************)

\* a loss was recorded at minute loss_at of today, no trade with a P&L >= 0
\* since, and fewer than COOLDOWN_AFTER_LOSS_MINUTES minutes have passed
CooldownRunning ==
    /\ bot.loss_at >= 0
    /\ cfg.cooldown_after_loss_minutes > 0
    /\ _today_key(bot.now) = _today_key(bot.loss_at)
    /\ bot.now < bot.loss_at + cfg.cooldown_after_loss_minutes

\* a call of the manager that finds the risk entry of another day
CallOnNewDay ==
    /\ bot'.op \in {"can_trade", "record_trade"}
    /\ bot.risk.date # _today_key(bot.now)

\* a call of record_trade with a P&L >= 0
RecordsNoLoss ==
    /\ bot'.op = "record_trade"
    /\ bot'.recorded = bot.recorded + 1
    /\ ~IsNull(bot'.arg)
    /\ RGe(bot'.arg, Zero)

\* C37: after a recorded loss at minute t, can_trade answers False at every
\* minute of [t, t + c) of the same UTC day unless a trade with a P&L >= 0
\* was recorded since; the first call on another day starts from a fresh
\* risk entry (no cooldown, no trade counted, no loss streak); recording a
\* trade with a P&L >= 0 clears the cooldown and the loss streak.
C37_LossCooldown ==
    /\ [](bot.op = "can_trade" /\ CooldownRunning => ~bot.allowed)
    /\ [][ CallOnNewDay =>
             /\ bot'.risk.date = _today_key(bot.now)
             /\ bot'.op = "can_trade" =>
                  /\ bot'.risk.cooldown_until_utc = NoTime
                  /\ bot'.risk.trades_today = 0
                  /\ bot'.risk.consecutive_losses = 0
                  /\ bot'.reason # "cooldown"
             /\ bot'.op = "record_trade" =>
                  /\ bot'.risk.trades_today = 1
                  /\ bot'.risk.consecutive_losses =
                        IF ~IsNull(bot'.arg) /\ RLt(bot'.arg, Zero)
                        THEN 1 ELSE 0
                  /\ bot'.risk.cooldown_until_utc # NoTime =>
                        /\ ~IsNull(bot'.arg) /\ RLt(bot'.arg, Zero)
                        /\ fromisoformat(bot'.risk.cooldown_until_utc) =
                              bot.now + cfg.cooldown_after_loss_minutes ]_vars
    /\ [][ RecordsNoLoss =>
             /\ bot'.risk.cooldown_until_utc = NoTime
             /\ bot'.risk.consecutive_losses = 0 ]_vars

\* C37 witness: can_trade answered False for the cooldown in the last
\* minute of the cooldown of a loss, with nothing else in the way: fewer
\* trades than the daily maximum, a loss streak below its maximum and no
\* equity to measure a drawdown with
C37_Witness ==
    /\ caller = "risk"
    /\ bot.op = "can_trade"
    /\ CooldownRunning
    /\ bot.now = bot.loss_at + cfg.cooldown_after_loss_minutes - 1
    /\ bot.now > bot.loss_at
    /\ ~bot.allowed
    /\ bot.reason = "cooldown"
    /\ IsNull(bot.arg)
    /\ bot.risk.trades_today < cfg.max_trades_per_day
    /\ bot.risk.consecutive_losses < cfg.max_consecutive_losses

(***************************************************************************)
(* The runtime state shared by the bot and the dashboard                   *)
(* (src/utils/runtime_state.py, src/dashboard/app.py, the loads and saves  *)
(* of run_bot).  Both processes read and write runtime_state.json through  *)
(* a RuntimeStateStore of their own; nothing orders their loads and saves. *)
(* Of the state, the model keeps the selected symbol, the stored backtest  *)
(* (0 for none, otherwise the number of the POST that stored it) and the   *)
(* cycle count.  A save opens the file for writing, which empties it, and  *)
(* then writes; a load in between finds no JSON.  In SpecShared the        *)
(* variable bot holds the file, the bot's in-memory state and position,    *)
(* the dashboard's request in flight, the last answer of GET /api/status,  *)
(* and what the dashboard's completed POSTs selected and stored last.      *)
(***************************************************************************)
MaxRequests == 2

\* settings.ACTIVE_SYMBOL
ActiveSymbol == "AAA"

\* RuntimeStateStore._default_state
_default_state ==
    [ torn |-> FALSE, selected_symbol |-> "none", backtest |-> 0,
      cycles |-> 0 ]

\* the file between the open(..., "w") and the write of a save
TornFile == [_default_state EXCEPT !.torn = TRUE]

\* RuntimeStateStore.load: the defaults for a missing or unreadable file,
\* otherwise the defaults updated by the file's entries
load(file) == IF file.torn THEN _default_state ELSE file

\* _get_selected_symbol: the runtime state with its selection made valid
_get_selected_symbol(runtime_state) ==
    LET selected == IF runtime_state.selected_symbol # "none"
                    THEN runtime_state.selected_symbol ELSE ActiveSymbol
    IN  [runtime_state EXCEPT !.selected_symbol =
            IF selected \in Symbols THEN selected
            ELSE CHOOSE s \in Symbols : TRUE]

\* _payload of the dashboard: what it serves, and the file it leaves (it
\* saves the selection it had to repair)
_payload(file) ==
    LET runtime == load(file)
        selected == IF runtime.selected_symbol # "none"
                    THEN runtime.selected_symbol ELSE ActiveSymbol
        repaired == [runtime EXCEPT !.selected_symbol =
                        CHOOSE s \in Symbols : TRUE]
    IN  IF selected \in Symbols
        THEN [ selected_symbol |-> selected,
               backtest |-> runtime.backtest, file |-> file ]
        ELSE [ selected_symbol |-> repaired.selected_symbol,
               backtest |-> runtime.backtest, file |-> repaired ]

NoRequest == [ pc |-> "idle", runtime |-> _default_state ]

\* no file yet, the bot not started, the dashboard idle
NewShared ==
    [ file |-> _default_state,
      runtime_state |-> _default_state,
      bot_pc |-> "off",
      dash |-> NoRequest,
      requests |-> 0,
      op |-> "none",
      served |-> [ selected_symbol |-> "none", backtest |-> 0 ],
      chosen |-> "none",
      stored |-> 0 ]

SharedUnchanged ==
    UNCHANGED <<cfg, df, caller, pc, simvars, wfvars, result, replayvars,
                parvars>>

\* run_bot starts: it loads the runtime state once
BotStart ==
    /\ pc = "shared"
    /\ bot.bot_pc = "off"
    /\ bot' = [bot EXCEPT
                 !.runtime_state = _get_selected_symbol(load(bot.file)),
                 !.bot_pc = "started",
                 !.op = "bot"]
    /\ SharedUnchanged

\* the head of a cycle: the stored selection is adopted when it names a
\* known symbol, nothing else is read from the file
BotCycleHead ==
    /\ pc = "shared"
    /\ bot.bot_pc \in {"started", "sleeping"}
    /\ bot.runtime_state.cycles < MaxCycles
    /\ LET external_state == load(bot.file)
           external_selected == external_state.selected_symbol
       IN  bot' = [bot EXCEPT
                     !.runtime_state = _get_selected_symbol(
                         [@ EXCEPT !.selected_symbol =
                                       IF external_selected \in Symbols
                                       THEN external_selected ELSE @,
                                   !.cycles = @ + 1]),
                     !.bot_pc = "working",
                     !.op = "bot"]
    /\ SharedUnchanged

\* state_store.save(runtime_state) of the bot, after the preflight or in a
\* cycle: the file is opened for writing
BotSaveOpen ==
    /\ pc = "shared"
    /\ bot.bot_pc \in {"started", "working"}
    /\ bot' = [bot EXCEPT !.file = TornFile, !.bot_pc = "saving",
                          !.op = "bot"]
    /\ SharedUnchanged

\* ... and the in-memory state written
BotSaveWrite ==
    /\ pc = "shared"
    /\ bot.bot_pc = "saving"
    /\ bot' = [bot EXCEPT !.file = bot.runtime_state, !.bot_pc = "sleeping",
                          !.op = "bot"]
    /\ SharedUnchanged

\* POST /api/select-symbol with a known symbol: load and set
DashSelectLoad ==
    /\ pc = "shared"
    /\ bot.dash.pc = "idle"
    /\ bot.requests < MaxRequests
    /\ \E symbol \in Symbols :
         bot' = [bot EXCEPT
                   !.dash = [ pc |-> "select",
                              runtime |-> [load(bot.file) EXCEPT
                                             !.selected_symbol = symbol] ],
                   !.requests = @ + 1,
                   !.op = "post"]
    /\ SharedUnchanged

\* POST /api/backtest: the payload, the backtest, then load and set
DashBacktestLoad ==
    /\ pc = "shared"
    /\ bot.dash.pc = "idle"
    /\ bot.requests < MaxRequests
    /\ LET file == _payload(bot.file).file
       IN  bot' = [bot EXCEPT
                     !.file = file,
                     !.dash = [ pc |-> "backtest",
                                runtime |-> [load(file) EXCEPT
                                               !.backtest =
                                                   bot.requests + 1] ],
                     !.requests = @ + 1,
                     !.op = "post"]
    /\ SharedUnchanged

\* STATE_STORE.save(runtime) of a POST: the file is opened for writing
DashSaveOpen ==
    /\ pc = "shared"
    /\ bot.dash.pc \in {"select", "backtest"}
    /\ bot' = [bot EXCEPT !.file = TornFile,
                          !.dash.pc = IF @ = "select" THEN "select_saving"
                                      ELSE "backtest_saving",
                          !.op = "post"]
    /\ SharedUnchanged

\* ... and the POST's state written; the POST answers ok
DashSaveWrite ==
    /\ pc = "shared"
    /\ bot.dash.pc \in {"select_saving", "backtest_saving"}
    /\ bot' = [bot EXCEPT
                 !.file = bot.dash.runtime,
                 !.dash = NoRequest,
                 !.chosen = IF bot.dash.pc = "select_saving"
                            THEN bot.dash.runtime.selected_symbol ELSE @,
                 !.stored = IF bot.dash.pc = "backtest_saving"
                            THEN bot.dash.runtime.backtest ELSE @,
                 !.op = "post"]
    /\ SharedUnchanged

\* GET /api/status
DashStatus ==
    /\ pc = "shared"
    /\ LET payload == _payload(bot.file)
       IN  bot' = [bot EXCEPT
                     !.file = payload.file,
                     !.served = [ selected_symbol |-> payload.selected_symbol,
                                  backtest |-> payload.backtest ],
                     !.op = "status"]
    /\ SharedUnchanged

InitShared ==
    /\ cfg = EmptyDict
    /\ df = <<>>
    /\ caller = "shared"
    /\ pc = "shared"
    /\ start_index = 0
    /\ end_index = 0
    /\ SimIdle
    /\ WfIdle
    /\ ReplayIdle
    /\ ParIdle
    /\ bot = NewShared

NextShared ==
    \/ BotStart
    \/ BotCycleHead
    \/ BotSaveOpen
    \/ BotSaveWrite
    \/ DashSelectLoad
    \/ DashBacktestLoad
    \/ DashSaveOpen
    \/ DashSaveWrite
    \/ DashStatus

SpecShared == InitShared /\ [][NextShared]_vars

(***************************************************************************)
(* Properties of the shared runtime state (SpecShared)                     *)
(***************************************************************************)

\* the bot begins a save while the file is whole and no request of the
\* dashboard is in flight
BotSaves ==
    /\ caller = "shared"
    /\ bot.bot_pc \in {"started", "working"}
    /\ bot'.bot_pc = "saving"
    /\ bot.dash.pc = "idle"
    /\ ~bot.file.torn

\* C38: a save of the bot does not write over the dashboard's selection:
\* when the file holds the symbol the dashboard selected last, the state
\* the bot saves carries that symbol.  The bot saves the state it holds in
\* memory, selection included (main.py:766), and reads the file's
\* selection only at the head of a cycle (main.py:511-513), so a selection
\* the dashboard wrote after that load is written over and the next cycle
\* loads the bot's own selection again.
C38_SelectionNotLost ==
    [][ BotSaves /\ bot.chosen # "none"
                 /\ bot.file.selected_symbol = bot.chosen =>
          bot.runtime_state.selected_symbol = bot.chosen ]_vars

\* C39: a save of the bot leaves the stored backtest in the file: when the
\* file holds the backtest the dashboard stored last, the state the bot
\* saves carries it.  The bot never reads the "backtest" entry again after
\* its start (main.py:452, 511-513) and saves the state it holds in memory,
\* so its next save removes the entry from the file, or puts back the one
\* that was there when the bot started, and GET /api/status serves that.
C39_BacktestKept ==
    [][ BotSaves /\ bot.stored # 0 /\ bot.file.backtest = bot.stored =>
          bot.runtime_state.backtest = bot.stored ]_vars
====
